---- MODULE Spec2Model ----
(***************************************************************************)
(* Radar chart widget: the data validator of src/src/utils/validationUtils *)
(* (validateRadarChartData and its two per-field validators), modelled as  *)
(* the code computes it.                                                   *)
(*                                                                         *)
(* JavaScript values are records [t, k, n, s]: t is the typeof-like tag    *)
(* ("undefined", "null", "number", "string"), k the kind of a number       *)
(* ("fin", "nan", "pinf", "ninf"), n the integer of a finite number and s  *)
(* the characters of a string (a sequence of one-character strings).       *)
(* Diagnostic records keep type, field and index; the message text is left *)
(* out.                                                                    *)
(***************************************************************************)
EXTENDS Integers, Sequences, FiniteSets, TLC

VARIABLES dataPoints, maxValue, minValue, pc, index, errors, warnings,
          processedData, seenNames, result,
          clampIn, clampOnce, clampTwice, clampGeo, clampPc,
          mounted, props, calc, recomputed, validation,
          dimIn, dimHinted, dimCalculated,
          pathIn, pathOut,
          calls,
          dataSource, nameAttribute, valueAttribute, maxValueProp, memo, view, retries,
          lastRender,
          tipIn, tipOut,
          boundary,
          padIn, padOut

validatorVars == <<dataPoints, pc, index, errors, warnings, processedData, seenNames,
                   result>>

clampVars == <<clampIn, clampOnce, clampTwice, clampGeo, clampPc>>

chartVars == <<mounted, props, calc, recomputed, validation>>

\* the variables of the other specifications, which the validator and the
\* clamping leave alone
dimVars == <<dimIn, dimHinted, dimCalculated>>

pathVars == <<pathIn, pathOut>>

widgetVars == <<dataSource, nameAttribute, valueAttribute, maxValueProp, memo, view, retries,
                lastRender>>

tipVars == <<tipIn, tipOut>>

padVars == <<padIn, padOut>>

\* the variables of the widget, the tooltip, the error boundary and the padding
laterVars == <<widgetVars, tipVars, boundary, padVars>>

otherVars == <<chartVars, dimVars, pathVars, calls, laterVars>>

\* the variables the chart leaves alone
nonChartVars == <<validatorVars, clampVars, maxValue, minValue, dimVars, pathVars, calls,
                  laterVars>>

\* the variables of the validator, the clamping, the chart, the dimensions, the
\* path and the calls
earlierVars == <<validatorVars, clampVars, maxValue, minValue, chartVars, dimVars, pathVars,
                 calls>>

vars == <<dataPoints, maxValue, minValue, pc, index, errors, warnings,
          processedData, seenNames, result,
          clampIn, clampOnce, clampTwice, clampGeo, clampPc,
          mounted, props, calc, recomputed, validation,
          dimIn, dimHinted, dimCalculated,
          pathIn, pathOut,
          calls,
          dataSource, nameAttribute, valueAttribute, maxValueProp, memo, view, retries,
          lastRender,
          tipIn, tipOut,
          boundary,
          padIn, padOut>>

(***************************************************************************)
(* Bounds of the model.                                                    *)
(***************************************************************************)
\* longest input array
MaxLen == 2

\* largest magnitude of a finite input value
MaxInput == 7

(***************************************************************************)
(* Program constants.                                                      *)
(***************************************************************************)
MAX_NAME_LENGTH == 20

SPECIAL_CHARS == {"<", ">", "'", "\"", "&"}

(***************************************************************************)
(* JavaScript values.                                                      *)
(***************************************************************************)
Undefined == [t |-> "undefined", k |-> "-", n |-> 0, s |-> <<>>]

Null == [t |-> "null", k |-> "-", n |-> 0, s |-> <<>>]

Num(i) == [t |-> "number", k |-> "fin", n |-> i, s |-> <<>>]

NaN == [t |-> "number", k |-> "nan", n |-> 0, s |-> <<>>]

PosInf == [t |-> "number", k |-> "pinf", n |-> 0, s |-> <<>>]

NegInf == [t |-> "number", k |-> "ninf", n |-> 0, s |-> <<>>]

Str(chars) == [t |-> "string", k |-> "-", n |-> 0, s |-> chars]

\* typeof v === "number"
IsNumberType(v) == v.t = "number"

\* typeof v === "string"
IsStringType(v) == v.t = "string"

\* isNaN(v) for a value of number type
IsNaN(v) == v.k = "nan"

\* !v : undefined, null, "", 0 and NaN are falsy
Falsy(v) ==
    \/ v.t \in {"undefined", "null"}
    \/ v.t = "string" /\ v.s = <<>>
    \/ v.t = "number" /\ (v.k = "nan" \/ (v.k = "fin" /\ v.n = 0))

\* a < b on JavaScript numbers: false whenever NaN is involved
NumLt(a, b) ==
    /\ a.k # "nan" /\ b.k # "nan"
    /\ \/ a.k = "fin" /\ b.k = "fin" /\ a.n < b.n
       \/ a.k = "ninf" /\ b.k # "ninf"
       \/ a.k # "pinf" /\ b.k = "pinf"

\* a > b
NumGt(a, b) == NumLt(b, a)

(***************************************************************************)
(* Strings: String.prototype.trim and toLowerCase on character sequences.  *)
(***************************************************************************)
UpperCase == <<"A", "B", "C", "D", "E", "F", "G", "H", "I", "J", "K", "L", "M",
               "N", "O", "P", "Q", "R", "S", "T", "U", "V", "W", "X", "Y", "Z">>

LowerCase == <<"a", "b", "c", "d", "e", "f", "g", "h", "i", "j", "k", "l", "m",
               "n", "o", "p", "q", "r", "s", "t", "u", "v", "w", "x", "y", "z">>

\* A character that is not ASCII is written as the name of its UTF-16 code
\* unit, and a character outside the Basic Multilingual Plane as its two
\* surrogates.

\* the WhiteSpace and LineTerminator characters of ECMAScript that are not
\* ASCII, and the vertical tab
WhiteSpaceCodePoints ==
    {"U+000B", "U+00A0", "U+1680", "U+2000", "U+2001", "U+2002",
     "U+2003", "U+2004", "U+2005", "U+2006", "U+2007", "U+2008",
     "U+2009", "U+200A", "U+2028", "U+2029", "U+202F", "U+205F",
     "U+3000", "U+FEFF"}

\* what String.prototype.trim strips: space, tab, line feed, carriage return,
\* form feed and the characters above
WhiteSpace == {" ", "\t", "\n", "\r", "\f"} \cup WhiteSpaceCodePoints

IsSpace(c) == c \in WhiteSpace

\* the code units above ASCII that toLowerCase changes into one other code
\* unit (the simple lower case mappings of the Unicode Character Database)
UpperLetters ==
    <<"U+00C0", "U+00C1", "U+00C2", "U+00C3", "U+00C4", "U+00C5", "U+00C6",
      "U+00C7", "U+00C8", "U+00C9", "U+00CA", "U+00CB", "U+00CC", "U+00CD",
      "U+00CE", "U+00CF", "U+00D0", "U+00D1", "U+00D2", "U+00D3", "U+00D4",
      "U+00D5", "U+00D6", "U+00D8", "U+00D9", "U+00DA", "U+00DB", "U+00DC",
      "U+00DD", "U+00DE", "U+0100", "U+0102", "U+0104", "U+0106", "U+0108",
      "U+010A", "U+010C", "U+010E", "U+0110", "U+0112", "U+0114", "U+0116",
      "U+0118", "U+011A", "U+011C", "U+011E", "U+0120", "U+0122", "U+0124",
      "U+0126", "U+0128", "U+012A", "U+012C", "U+012E", "U+0132", "U+0134",
      "U+0136", "U+0139", "U+013B", "U+013D", "U+013F", "U+0141", "U+0143",
      "U+0145", "U+0147", "U+014A", "U+014C", "U+014E", "U+0150", "U+0152",
      "U+0154", "U+0156", "U+0158", "U+015A", "U+015C", "U+015E", "U+0160",
      "U+0162", "U+0164", "U+0166", "U+0168", "U+016A", "U+016C", "U+016E",
      "U+0170", "U+0172", "U+0174", "U+0176", "U+0178", "U+0179", "U+017B",
      "U+017D", "U+0181", "U+0182", "U+0184", "U+0186", "U+0187", "U+0189",
      "U+018A", "U+018B", "U+018E", "U+018F", "U+0190", "U+0191", "U+0193",
      "U+0194", "U+0196", "U+0197", "U+0198", "U+019C", "U+019D", "U+019F",
      "U+01A0", "U+01A2", "U+01A4", "U+01A6", "U+01A7", "U+01A9", "U+01AC",
      "U+01AE", "U+01AF", "U+01B1", "U+01B2", "U+01B3", "U+01B5", "U+01B7",
      "U+01B8", "U+01BC", "U+01C4", "U+01C5", "U+01C7", "U+01C8", "U+01CA",
      "U+01CB", "U+01CD", "U+01CF", "U+01D1", "U+01D3", "U+01D5", "U+01D7",
      "U+01D9", "U+01DB", "U+01DE", "U+01E0", "U+01E2", "U+01E4", "U+01E6",
      "U+01E8", "U+01EA", "U+01EC", "U+01EE", "U+01F1", "U+01F2", "U+01F4",
      "U+01F6", "U+01F7", "U+01F8", "U+01FA", "U+01FC", "U+01FE", "U+0200",
      "U+0202", "U+0204", "U+0206", "U+0208", "U+020A", "U+020C", "U+020E",
      "U+0210", "U+0212", "U+0214", "U+0216", "U+0218", "U+021A", "U+021C",
      "U+021E", "U+0220", "U+0222", "U+0224", "U+0226", "U+0228", "U+022A",
      "U+022C", "U+022E", "U+0230", "U+0232", "U+023A", "U+023B", "U+023D",
      "U+023E", "U+0241", "U+0243", "U+0244", "U+0245", "U+0246", "U+0248",
      "U+024A", "U+024C", "U+024E", "U+0370", "U+0372", "U+0376", "U+037F",
      "U+0386", "U+0388", "U+0389", "U+038A", "U+038C", "U+038E", "U+038F",
      "U+0391", "U+0392", "U+0393", "U+0394", "U+0395", "U+0396", "U+0397",
      "U+0398", "U+0399", "U+039A", "U+039B", "U+039C", "U+039D", "U+039E",
      "U+039F", "U+03A0", "U+03A1", "U+03A3", "U+03A4", "U+03A5", "U+03A6",
      "U+03A7", "U+03A8", "U+03A9", "U+03AA", "U+03AB", "U+03CF", "U+03D8",
      "U+03DA", "U+03DC", "U+03DE", "U+03E0", "U+03E2", "U+03E4", "U+03E6",
      "U+03E8", "U+03EA", "U+03EC", "U+03EE", "U+03F4", "U+03F7", "U+03F9",
      "U+03FA", "U+03FD", "U+03FE", "U+03FF", "U+0400", "U+0401", "U+0402",
      "U+0403", "U+0404", "U+0405", "U+0406", "U+0407", "U+0408", "U+0409",
      "U+040A", "U+040B", "U+040C", "U+040D", "U+040E", "U+040F", "U+0410",
      "U+0411", "U+0412", "U+0413", "U+0414", "U+0415", "U+0416", "U+0417",
      "U+0418", "U+0419", "U+041A", "U+041B", "U+041C", "U+041D", "U+041E",
      "U+041F", "U+0420", "U+0421", "U+0422", "U+0423", "U+0424", "U+0425",
      "U+0426", "U+0427", "U+0428", "U+0429", "U+042A", "U+042B", "U+042C",
      "U+042D", "U+042E", "U+042F", "U+0460", "U+0462", "U+0464", "U+0466",
      "U+0468", "U+046A", "U+046C", "U+046E", "U+0470", "U+0472", "U+0474",
      "U+0476", "U+0478", "U+047A", "U+047C", "U+047E", "U+0480", "U+048A",
      "U+048C", "U+048E", "U+0490", "U+0492", "U+0494", "U+0496", "U+0498",
      "U+049A", "U+049C", "U+049E", "U+04A0", "U+04A2", "U+04A4", "U+04A6",
      "U+04A8", "U+04AA", "U+04AC", "U+04AE", "U+04B0", "U+04B2", "U+04B4",
      "U+04B6", "U+04B8", "U+04BA", "U+04BC", "U+04BE", "U+04C0", "U+04C1",
      "U+04C3", "U+04C5", "U+04C7", "U+04C9", "U+04CB", "U+04CD", "U+04D0",
      "U+04D2", "U+04D4", "U+04D6", "U+04D8", "U+04DA", "U+04DC", "U+04DE",
      "U+04E0", "U+04E2", "U+04E4", "U+04E6", "U+04E8", "U+04EA", "U+04EC",
      "U+04EE", "U+04F0", "U+04F2", "U+04F4", "U+04F6", "U+04F8", "U+04FA",
      "U+04FC", "U+04FE", "U+0500", "U+0502", "U+0504", "U+0506", "U+0508",
      "U+050A", "U+050C", "U+050E", "U+0510", "U+0512", "U+0514", "U+0516",
      "U+0518", "U+051A", "U+051C", "U+051E", "U+0520", "U+0522", "U+0524",
      "U+0526", "U+0528", "U+052A", "U+052C", "U+052E", "U+0531", "U+0532",
      "U+0533", "U+0534", "U+0535", "U+0536", "U+0537", "U+0538", "U+0539",
      "U+053A", "U+053B", "U+053C", "U+053D", "U+053E", "U+053F", "U+0540",
      "U+0541", "U+0542", "U+0543", "U+0544", "U+0545", "U+0546", "U+0547",
      "U+0548", "U+0549", "U+054A", "U+054B", "U+054C", "U+054D", "U+054E",
      "U+054F", "U+0550", "U+0551", "U+0552", "U+0553", "U+0554", "U+0555",
      "U+0556", "U+10A0", "U+10A1", "U+10A2", "U+10A3", "U+10A4", "U+10A5",
      "U+10A6", "U+10A7", "U+10A8", "U+10A9", "U+10AA", "U+10AB", "U+10AC",
      "U+10AD", "U+10AE", "U+10AF", "U+10B0", "U+10B1", "U+10B2", "U+10B3",
      "U+10B4", "U+10B5", "U+10B6", "U+10B7", "U+10B8", "U+10B9", "U+10BA",
      "U+10BB", "U+10BC", "U+10BD", "U+10BE", "U+10BF", "U+10C0", "U+10C1",
      "U+10C2", "U+10C3", "U+10C4", "U+10C5", "U+10C7", "U+10CD", "U+13A0",
      "U+13A1", "U+13A2", "U+13A3", "U+13A4", "U+13A5", "U+13A6", "U+13A7",
      "U+13A8", "U+13A9", "U+13AA", "U+13AB", "U+13AC", "U+13AD", "U+13AE",
      "U+13AF", "U+13B0", "U+13B1", "U+13B2", "U+13B3", "U+13B4", "U+13B5",
      "U+13B6", "U+13B7", "U+13B8", "U+13B9", "U+13BA", "U+13BB", "U+13BC",
      "U+13BD", "U+13BE", "U+13BF", "U+13C0", "U+13C1", "U+13C2", "U+13C3",
      "U+13C4", "U+13C5", "U+13C6", "U+13C7", "U+13C8", "U+13C9", "U+13CA",
      "U+13CB", "U+13CC", "U+13CD", "U+13CE", "U+13CF", "U+13D0", "U+13D1",
      "U+13D2", "U+13D3", "U+13D4", "U+13D5", "U+13D6", "U+13D7", "U+13D8",
      "U+13D9", "U+13DA", "U+13DB", "U+13DC", "U+13DD", "U+13DE", "U+13DF",
      "U+13E0", "U+13E1", "U+13E2", "U+13E3", "U+13E4", "U+13E5", "U+13E6",
      "U+13E7", "U+13E8", "U+13E9", "U+13EA", "U+13EB", "U+13EC", "U+13ED",
      "U+13EE", "U+13EF", "U+13F0", "U+13F1", "U+13F2", "U+13F3", "U+13F4",
      "U+13F5", "U+1C89", "U+1C90", "U+1C91", "U+1C92", "U+1C93", "U+1C94",
      "U+1C95", "U+1C96", "U+1C97", "U+1C98", "U+1C99", "U+1C9A", "U+1C9B",
      "U+1C9C", "U+1C9D", "U+1C9E", "U+1C9F", "U+1CA0", "U+1CA1", "U+1CA2",
      "U+1CA3", "U+1CA4", "U+1CA5", "U+1CA6", "U+1CA7", "U+1CA8", "U+1CA9",
      "U+1CAA", "U+1CAB", "U+1CAC", "U+1CAD", "U+1CAE", "U+1CAF", "U+1CB0",
      "U+1CB1", "U+1CB2", "U+1CB3", "U+1CB4", "U+1CB5", "U+1CB6", "U+1CB7",
      "U+1CB8", "U+1CB9", "U+1CBA", "U+1CBD", "U+1CBE", "U+1CBF", "U+1E00",
      "U+1E02", "U+1E04", "U+1E06", "U+1E08", "U+1E0A", "U+1E0C", "U+1E0E",
      "U+1E10", "U+1E12", "U+1E14", "U+1E16", "U+1E18", "U+1E1A", "U+1E1C",
      "U+1E1E", "U+1E20", "U+1E22", "U+1E24", "U+1E26", "U+1E28", "U+1E2A",
      "U+1E2C", "U+1E2E", "U+1E30", "U+1E32", "U+1E34", "U+1E36", "U+1E38",
      "U+1E3A", "U+1E3C", "U+1E3E", "U+1E40", "U+1E42", "U+1E44", "U+1E46",
      "U+1E48", "U+1E4A", "U+1E4C", "U+1E4E", "U+1E50", "U+1E52", "U+1E54",
      "U+1E56", "U+1E58", "U+1E5A", "U+1E5C", "U+1E5E", "U+1E60", "U+1E62",
      "U+1E64", "U+1E66", "U+1E68", "U+1E6A", "U+1E6C", "U+1E6E", "U+1E70",
      "U+1E72", "U+1E74", "U+1E76", "U+1E78", "U+1E7A", "U+1E7C", "U+1E7E",
      "U+1E80", "U+1E82", "U+1E84", "U+1E86", "U+1E88", "U+1E8A", "U+1E8C",
      "U+1E8E", "U+1E90", "U+1E92", "U+1E94", "U+1E9E", "U+1EA0", "U+1EA2",
      "U+1EA4", "U+1EA6", "U+1EA8", "U+1EAA", "U+1EAC", "U+1EAE", "U+1EB0",
      "U+1EB2", "U+1EB4", "U+1EB6", "U+1EB8", "U+1EBA", "U+1EBC", "U+1EBE",
      "U+1EC0", "U+1EC2", "U+1EC4", "U+1EC6", "U+1EC8", "U+1ECA", "U+1ECC",
      "U+1ECE", "U+1ED0", "U+1ED2", "U+1ED4", "U+1ED6", "U+1ED8", "U+1EDA",
      "U+1EDC", "U+1EDE", "U+1EE0", "U+1EE2", "U+1EE4", "U+1EE6", "U+1EE8",
      "U+1EEA", "U+1EEC", "U+1EEE", "U+1EF0", "U+1EF2", "U+1EF4", "U+1EF6",
      "U+1EF8", "U+1EFA", "U+1EFC", "U+1EFE", "U+1F08", "U+1F09", "U+1F0A",
      "U+1F0B", "U+1F0C", "U+1F0D", "U+1F0E", "U+1F0F", "U+1F18", "U+1F19",
      "U+1F1A", "U+1F1B", "U+1F1C", "U+1F1D", "U+1F28", "U+1F29", "U+1F2A",
      "U+1F2B", "U+1F2C", "U+1F2D", "U+1F2E", "U+1F2F", "U+1F38", "U+1F39",
      "U+1F3A", "U+1F3B", "U+1F3C", "U+1F3D", "U+1F3E", "U+1F3F", "U+1F48",
      "U+1F49", "U+1F4A", "U+1F4B", "U+1F4C", "U+1F4D", "U+1F59", "U+1F5B",
      "U+1F5D", "U+1F5F", "U+1F68", "U+1F69", "U+1F6A", "U+1F6B", "U+1F6C",
      "U+1F6D", "U+1F6E", "U+1F6F", "U+1F88", "U+1F89", "U+1F8A", "U+1F8B",
      "U+1F8C", "U+1F8D", "U+1F8E", "U+1F8F", "U+1F98", "U+1F99", "U+1F9A",
      "U+1F9B", "U+1F9C", "U+1F9D", "U+1F9E", "U+1F9F", "U+1FA8", "U+1FA9",
      "U+1FAA", "U+1FAB", "U+1FAC", "U+1FAD", "U+1FAE", "U+1FAF", "U+1FB8",
      "U+1FB9", "U+1FBA", "U+1FBB", "U+1FBC", "U+1FC8", "U+1FC9", "U+1FCA",
      "U+1FCB", "U+1FCC", "U+1FD8", "U+1FD9", "U+1FDA", "U+1FDB", "U+1FE8",
      "U+1FE9", "U+1FEA", "U+1FEB", "U+1FEC", "U+1FF8", "U+1FF9", "U+1FFA",
      "U+1FFB", "U+1FFC", "U+2126", "U+212A", "U+212B", "U+2132", "U+2160",
      "U+2161", "U+2162", "U+2163", "U+2164", "U+2165", "U+2166", "U+2167",
      "U+2168", "U+2169", "U+216A", "U+216B", "U+216C", "U+216D", "U+216E",
      "U+216F", "U+2183", "U+24B6", "U+24B7", "U+24B8", "U+24B9", "U+24BA",
      "U+24BB", "U+24BC", "U+24BD", "U+24BE", "U+24BF", "U+24C0", "U+24C1",
      "U+24C2", "U+24C3", "U+24C4", "U+24C5", "U+24C6", "U+24C7", "U+24C8",
      "U+24C9", "U+24CA", "U+24CB", "U+24CC", "U+24CD", "U+24CE", "U+24CF",
      "U+2C00", "U+2C01", "U+2C02", "U+2C03", "U+2C04", "U+2C05", "U+2C06",
      "U+2C07", "U+2C08", "U+2C09", "U+2C0A", "U+2C0B", "U+2C0C", "U+2C0D",
      "U+2C0E", "U+2C0F", "U+2C10", "U+2C11", "U+2C12", "U+2C13", "U+2C14",
      "U+2C15", "U+2C16", "U+2C17", "U+2C18", "U+2C19", "U+2C1A", "U+2C1B",
      "U+2C1C", "U+2C1D", "U+2C1E", "U+2C1F", "U+2C20", "U+2C21", "U+2C22",
      "U+2C23", "U+2C24", "U+2C25", "U+2C26", "U+2C27", "U+2C28", "U+2C29",
      "U+2C2A", "U+2C2B", "U+2C2C", "U+2C2D", "U+2C2E", "U+2C2F", "U+2C60",
      "U+2C62", "U+2C63", "U+2C64", "U+2C67", "U+2C69", "U+2C6B", "U+2C6D",
      "U+2C6E", "U+2C6F", "U+2C70", "U+2C72", "U+2C75", "U+2C7E", "U+2C7F",
      "U+2C80", "U+2C82", "U+2C84", "U+2C86", "U+2C88", "U+2C8A", "U+2C8C",
      "U+2C8E", "U+2C90", "U+2C92", "U+2C94", "U+2C96", "U+2C98", "U+2C9A",
      "U+2C9C", "U+2C9E", "U+2CA0", "U+2CA2", "U+2CA4", "U+2CA6", "U+2CA8",
      "U+2CAA", "U+2CAC", "U+2CAE", "U+2CB0", "U+2CB2", "U+2CB4", "U+2CB6",
      "U+2CB8", "U+2CBA", "U+2CBC", "U+2CBE", "U+2CC0", "U+2CC2", "U+2CC4",
      "U+2CC6", "U+2CC8", "U+2CCA", "U+2CCC", "U+2CCE", "U+2CD0", "U+2CD2",
      "U+2CD4", "U+2CD6", "U+2CD8", "U+2CDA", "U+2CDC", "U+2CDE", "U+2CE0",
      "U+2CE2", "U+2CEB", "U+2CED", "U+2CF2", "U+A640", "U+A642", "U+A644",
      "U+A646", "U+A648", "U+A64A", "U+A64C", "U+A64E", "U+A650", "U+A652",
      "U+A654", "U+A656", "U+A658", "U+A65A", "U+A65C", "U+A65E", "U+A660",
      "U+A662", "U+A664", "U+A666", "U+A668", "U+A66A", "U+A66C", "U+A680",
      "U+A682", "U+A684", "U+A686", "U+A688", "U+A68A", "U+A68C", "U+A68E",
      "U+A690", "U+A692", "U+A694", "U+A696", "U+A698", "U+A69A", "U+A722",
      "U+A724", "U+A726", "U+A728", "U+A72A", "U+A72C", "U+A72E", "U+A732",
      "U+A734", "U+A736", "U+A738", "U+A73A", "U+A73C", "U+A73E", "U+A740",
      "U+A742", "U+A744", "U+A746", "U+A748", "U+A74A", "U+A74C", "U+A74E",
      "U+A750", "U+A752", "U+A754", "U+A756", "U+A758", "U+A75A", "U+A75C",
      "U+A75E", "U+A760", "U+A762", "U+A764", "U+A766", "U+A768", "U+A76A",
      "U+A76C", "U+A76E", "U+A779", "U+A77B", "U+A77D", "U+A77E", "U+A780",
      "U+A782", "U+A784", "U+A786", "U+A78B", "U+A78D", "U+A790", "U+A792",
      "U+A796", "U+A798", "U+A79A", "U+A79C", "U+A79E", "U+A7A0", "U+A7A2",
      "U+A7A4", "U+A7A6", "U+A7A8", "U+A7AA", "U+A7AB", "U+A7AC", "U+A7AD",
      "U+A7AE", "U+A7B0", "U+A7B1", "U+A7B2", "U+A7B3", "U+A7B4", "U+A7B6",
      "U+A7B8", "U+A7BA", "U+A7BC", "U+A7BE", "U+A7C0", "U+A7C2", "U+A7C4",
      "U+A7C5", "U+A7C6", "U+A7C7", "U+A7C9", "U+A7CB", "U+A7CC", "U+A7CE",
      "U+A7D0", "U+A7D2", "U+A7D4", "U+A7D6", "U+A7D8", "U+A7DA", "U+A7DC",
      "U+A7F5", "U+FF21", "U+FF22", "U+FF23", "U+FF24", "U+FF25", "U+FF26",
      "U+FF27", "U+FF28", "U+FF29", "U+FF2A", "U+FF2B", "U+FF2C", "U+FF2D",
      "U+FF2E", "U+FF2F", "U+FF30", "U+FF31", "U+FF32", "U+FF33", "U+FF34",
      "U+FF35", "U+FF36", "U+FF37", "U+FF38", "U+FF39", "U+FF3A">>

\* their lower case, position by position
LowerLetters ==
    <<"U+00E0", "U+00E1", "U+00E2", "U+00E3", "U+00E4", "U+00E5", "U+00E6",
      "U+00E7", "U+00E8", "U+00E9", "U+00EA", "U+00EB", "U+00EC", "U+00ED",
      "U+00EE", "U+00EF", "U+00F0", "U+00F1", "U+00F2", "U+00F3", "U+00F4",
      "U+00F5", "U+00F6", "U+00F8", "U+00F9", "U+00FA", "U+00FB", "U+00FC",
      "U+00FD", "U+00FE", "U+0101", "U+0103", "U+0105", "U+0107", "U+0109",
      "U+010B", "U+010D", "U+010F", "U+0111", "U+0113", "U+0115", "U+0117",
      "U+0119", "U+011B", "U+011D", "U+011F", "U+0121", "U+0123", "U+0125",
      "U+0127", "U+0129", "U+012B", "U+012D", "U+012F", "U+0133", "U+0135",
      "U+0137", "U+013A", "U+013C", "U+013E", "U+0140", "U+0142", "U+0144",
      "U+0146", "U+0148", "U+014B", "U+014D", "U+014F", "U+0151", "U+0153",
      "U+0155", "U+0157", "U+0159", "U+015B", "U+015D", "U+015F", "U+0161",
      "U+0163", "U+0165", "U+0167", "U+0169", "U+016B", "U+016D", "U+016F",
      "U+0171", "U+0173", "U+0175", "U+0177", "U+00FF", "U+017A", "U+017C",
      "U+017E", "U+0253", "U+0183", "U+0185", "U+0254", "U+0188", "U+0256",
      "U+0257", "U+018C", "U+01DD", "U+0259", "U+025B", "U+0192", "U+0260",
      "U+0263", "U+0269", "U+0268", "U+0199", "U+026F", "U+0272", "U+0275",
      "U+01A1", "U+01A3", "U+01A5", "U+0280", "U+01A8", "U+0283", "U+01AD",
      "U+0288", "U+01B0", "U+028A", "U+028B", "U+01B4", "U+01B6", "U+0292",
      "U+01B9", "U+01BD", "U+01C6", "U+01C6", "U+01C9", "U+01C9", "U+01CC",
      "U+01CC", "U+01CE", "U+01D0", "U+01D2", "U+01D4", "U+01D6", "U+01D8",
      "U+01DA", "U+01DC", "U+01DF", "U+01E1", "U+01E3", "U+01E5", "U+01E7",
      "U+01E9", "U+01EB", "U+01ED", "U+01EF", "U+01F3", "U+01F3", "U+01F5",
      "U+0195", "U+01BF", "U+01F9", "U+01FB", "U+01FD", "U+01FF", "U+0201",
      "U+0203", "U+0205", "U+0207", "U+0209", "U+020B", "U+020D", "U+020F",
      "U+0211", "U+0213", "U+0215", "U+0217", "U+0219", "U+021B", "U+021D",
      "U+021F", "U+019E", "U+0223", "U+0225", "U+0227", "U+0229", "U+022B",
      "U+022D", "U+022F", "U+0231", "U+0233", "U+2C65", "U+023C", "U+019A",
      "U+2C66", "U+0242", "U+0180", "U+0289", "U+028C", "U+0247", "U+0249",
      "U+024B", "U+024D", "U+024F", "U+0371", "U+0373", "U+0377", "U+03F3",
      "U+03AC", "U+03AD", "U+03AE", "U+03AF", "U+03CC", "U+03CD", "U+03CE",
      "U+03B1", "U+03B2", "U+03B3", "U+03B4", "U+03B5", "U+03B6", "U+03B7",
      "U+03B8", "U+03B9", "U+03BA", "U+03BB", "U+03BC", "U+03BD", "U+03BE",
      "U+03BF", "U+03C0", "U+03C1", "U+03C3", "U+03C4", "U+03C5", "U+03C6",
      "U+03C7", "U+03C8", "U+03C9", "U+03CA", "U+03CB", "U+03D7", "U+03D9",
      "U+03DB", "U+03DD", "U+03DF", "U+03E1", "U+03E3", "U+03E5", "U+03E7",
      "U+03E9", "U+03EB", "U+03ED", "U+03EF", "U+03B8", "U+03F8", "U+03F2",
      "U+03FB", "U+037B", "U+037C", "U+037D", "U+0450", "U+0451", "U+0452",
      "U+0453", "U+0454", "U+0455", "U+0456", "U+0457", "U+0458", "U+0459",
      "U+045A", "U+045B", "U+045C", "U+045D", "U+045E", "U+045F", "U+0430",
      "U+0431", "U+0432", "U+0433", "U+0434", "U+0435", "U+0436", "U+0437",
      "U+0438", "U+0439", "U+043A", "U+043B", "U+043C", "U+043D", "U+043E",
      "U+043F", "U+0440", "U+0441", "U+0442", "U+0443", "U+0444", "U+0445",
      "U+0446", "U+0447", "U+0448", "U+0449", "U+044A", "U+044B", "U+044C",
      "U+044D", "U+044E", "U+044F", "U+0461", "U+0463", "U+0465", "U+0467",
      "U+0469", "U+046B", "U+046D", "U+046F", "U+0471", "U+0473", "U+0475",
      "U+0477", "U+0479", "U+047B", "U+047D", "U+047F", "U+0481", "U+048B",
      "U+048D", "U+048F", "U+0491", "U+0493", "U+0495", "U+0497", "U+0499",
      "U+049B", "U+049D", "U+049F", "U+04A1", "U+04A3", "U+04A5", "U+04A7",
      "U+04A9", "U+04AB", "U+04AD", "U+04AF", "U+04B1", "U+04B3", "U+04B5",
      "U+04B7", "U+04B9", "U+04BB", "U+04BD", "U+04BF", "U+04CF", "U+04C2",
      "U+04C4", "U+04C6", "U+04C8", "U+04CA", "U+04CC", "U+04CE", "U+04D1",
      "U+04D3", "U+04D5", "U+04D7", "U+04D9", "U+04DB", "U+04DD", "U+04DF",
      "U+04E1", "U+04E3", "U+04E5", "U+04E7", "U+04E9", "U+04EB", "U+04ED",
      "U+04EF", "U+04F1", "U+04F3", "U+04F5", "U+04F7", "U+04F9", "U+04FB",
      "U+04FD", "U+04FF", "U+0501", "U+0503", "U+0505", "U+0507", "U+0509",
      "U+050B", "U+050D", "U+050F", "U+0511", "U+0513", "U+0515", "U+0517",
      "U+0519", "U+051B", "U+051D", "U+051F", "U+0521", "U+0523", "U+0525",
      "U+0527", "U+0529", "U+052B", "U+052D", "U+052F", "U+0561", "U+0562",
      "U+0563", "U+0564", "U+0565", "U+0566", "U+0567", "U+0568", "U+0569",
      "U+056A", "U+056B", "U+056C", "U+056D", "U+056E", "U+056F", "U+0570",
      "U+0571", "U+0572", "U+0573", "U+0574", "U+0575", "U+0576", "U+0577",
      "U+0578", "U+0579", "U+057A", "U+057B", "U+057C", "U+057D", "U+057E",
      "U+057F", "U+0580", "U+0581", "U+0582", "U+0583", "U+0584", "U+0585",
      "U+0586", "U+2D00", "U+2D01", "U+2D02", "U+2D03", "U+2D04", "U+2D05",
      "U+2D06", "U+2D07", "U+2D08", "U+2D09", "U+2D0A", "U+2D0B", "U+2D0C",
      "U+2D0D", "U+2D0E", "U+2D0F", "U+2D10", "U+2D11", "U+2D12", "U+2D13",
      "U+2D14", "U+2D15", "U+2D16", "U+2D17", "U+2D18", "U+2D19", "U+2D1A",
      "U+2D1B", "U+2D1C", "U+2D1D", "U+2D1E", "U+2D1F", "U+2D20", "U+2D21",
      "U+2D22", "U+2D23", "U+2D24", "U+2D25", "U+2D27", "U+2D2D", "U+AB70",
      "U+AB71", "U+AB72", "U+AB73", "U+AB74", "U+AB75", "U+AB76", "U+AB77",
      "U+AB78", "U+AB79", "U+AB7A", "U+AB7B", "U+AB7C", "U+AB7D", "U+AB7E",
      "U+AB7F", "U+AB80", "U+AB81", "U+AB82", "U+AB83", "U+AB84", "U+AB85",
      "U+AB86", "U+AB87", "U+AB88", "U+AB89", "U+AB8A", "U+AB8B", "U+AB8C",
      "U+AB8D", "U+AB8E", "U+AB8F", "U+AB90", "U+AB91", "U+AB92", "U+AB93",
      "U+AB94", "U+AB95", "U+AB96", "U+AB97", "U+AB98", "U+AB99", "U+AB9A",
      "U+AB9B", "U+AB9C", "U+AB9D", "U+AB9E", "U+AB9F", "U+ABA0", "U+ABA1",
      "U+ABA2", "U+ABA3", "U+ABA4", "U+ABA5", "U+ABA6", "U+ABA7", "U+ABA8",
      "U+ABA9", "U+ABAA", "U+ABAB", "U+ABAC", "U+ABAD", "U+ABAE", "U+ABAF",
      "U+ABB0", "U+ABB1", "U+ABB2", "U+ABB3", "U+ABB4", "U+ABB5", "U+ABB6",
      "U+ABB7", "U+ABB8", "U+ABB9", "U+ABBA", "U+ABBB", "U+ABBC", "U+ABBD",
      "U+ABBE", "U+ABBF", "U+13F8", "U+13F9", "U+13FA", "U+13FB", "U+13FC",
      "U+13FD", "U+1C8A", "U+10D0", "U+10D1", "U+10D2", "U+10D3", "U+10D4",
      "U+10D5", "U+10D6", "U+10D7", "U+10D8", "U+10D9", "U+10DA", "U+10DB",
      "U+10DC", "U+10DD", "U+10DE", "U+10DF", "U+10E0", "U+10E1", "U+10E2",
      "U+10E3", "U+10E4", "U+10E5", "U+10E6", "U+10E7", "U+10E8", "U+10E9",
      "U+10EA", "U+10EB", "U+10EC", "U+10ED", "U+10EE", "U+10EF", "U+10F0",
      "U+10F1", "U+10F2", "U+10F3", "U+10F4", "U+10F5", "U+10F6", "U+10F7",
      "U+10F8", "U+10F9", "U+10FA", "U+10FD", "U+10FE", "U+10FF", "U+1E01",
      "U+1E03", "U+1E05", "U+1E07", "U+1E09", "U+1E0B", "U+1E0D", "U+1E0F",
      "U+1E11", "U+1E13", "U+1E15", "U+1E17", "U+1E19", "U+1E1B", "U+1E1D",
      "U+1E1F", "U+1E21", "U+1E23", "U+1E25", "U+1E27", "U+1E29", "U+1E2B",
      "U+1E2D", "U+1E2F", "U+1E31", "U+1E33", "U+1E35", "U+1E37", "U+1E39",
      "U+1E3B", "U+1E3D", "U+1E3F", "U+1E41", "U+1E43", "U+1E45", "U+1E47",
      "U+1E49", "U+1E4B", "U+1E4D", "U+1E4F", "U+1E51", "U+1E53", "U+1E55",
      "U+1E57", "U+1E59", "U+1E5B", "U+1E5D", "U+1E5F", "U+1E61", "U+1E63",
      "U+1E65", "U+1E67", "U+1E69", "U+1E6B", "U+1E6D", "U+1E6F", "U+1E71",
      "U+1E73", "U+1E75", "U+1E77", "U+1E79", "U+1E7B", "U+1E7D", "U+1E7F",
      "U+1E81", "U+1E83", "U+1E85", "U+1E87", "U+1E89", "U+1E8B", "U+1E8D",
      "U+1E8F", "U+1E91", "U+1E93", "U+1E95", "U+00DF", "U+1EA1", "U+1EA3",
      "U+1EA5", "U+1EA7", "U+1EA9", "U+1EAB", "U+1EAD", "U+1EAF", "U+1EB1",
      "U+1EB3", "U+1EB5", "U+1EB7", "U+1EB9", "U+1EBB", "U+1EBD", "U+1EBF",
      "U+1EC1", "U+1EC3", "U+1EC5", "U+1EC7", "U+1EC9", "U+1ECB", "U+1ECD",
      "U+1ECF", "U+1ED1", "U+1ED3", "U+1ED5", "U+1ED7", "U+1ED9", "U+1EDB",
      "U+1EDD", "U+1EDF", "U+1EE1", "U+1EE3", "U+1EE5", "U+1EE7", "U+1EE9",
      "U+1EEB", "U+1EED", "U+1EEF", "U+1EF1", "U+1EF3", "U+1EF5", "U+1EF7",
      "U+1EF9", "U+1EFB", "U+1EFD", "U+1EFF", "U+1F00", "U+1F01", "U+1F02",
      "U+1F03", "U+1F04", "U+1F05", "U+1F06", "U+1F07", "U+1F10", "U+1F11",
      "U+1F12", "U+1F13", "U+1F14", "U+1F15", "U+1F20", "U+1F21", "U+1F22",
      "U+1F23", "U+1F24", "U+1F25", "U+1F26", "U+1F27", "U+1F30", "U+1F31",
      "U+1F32", "U+1F33", "U+1F34", "U+1F35", "U+1F36", "U+1F37", "U+1F40",
      "U+1F41", "U+1F42", "U+1F43", "U+1F44", "U+1F45", "U+1F51", "U+1F53",
      "U+1F55", "U+1F57", "U+1F60", "U+1F61", "U+1F62", "U+1F63", "U+1F64",
      "U+1F65", "U+1F66", "U+1F67", "U+1F80", "U+1F81", "U+1F82", "U+1F83",
      "U+1F84", "U+1F85", "U+1F86", "U+1F87", "U+1F90", "U+1F91", "U+1F92",
      "U+1F93", "U+1F94", "U+1F95", "U+1F96", "U+1F97", "U+1FA0", "U+1FA1",
      "U+1FA2", "U+1FA3", "U+1FA4", "U+1FA5", "U+1FA6", "U+1FA7", "U+1FB0",
      "U+1FB1", "U+1F70", "U+1F71", "U+1FB3", "U+1F72", "U+1F73", "U+1F74",
      "U+1F75", "U+1FC3", "U+1FD0", "U+1FD1", "U+1F76", "U+1F77", "U+1FE0",
      "U+1FE1", "U+1F7A", "U+1F7B", "U+1FE5", "U+1F78", "U+1F79", "U+1F7C",
      "U+1F7D", "U+1FF3", "U+03C9", "k", "U+00E5", "U+214E", "U+2170",
      "U+2171", "U+2172", "U+2173", "U+2174", "U+2175", "U+2176", "U+2177",
      "U+2178", "U+2179", "U+217A", "U+217B", "U+217C", "U+217D", "U+217E",
      "U+217F", "U+2184", "U+24D0", "U+24D1", "U+24D2", "U+24D3", "U+24D4",
      "U+24D5", "U+24D6", "U+24D7", "U+24D8", "U+24D9", "U+24DA", "U+24DB",
      "U+24DC", "U+24DD", "U+24DE", "U+24DF", "U+24E0", "U+24E1", "U+24E2",
      "U+24E3", "U+24E4", "U+24E5", "U+24E6", "U+24E7", "U+24E8", "U+24E9",
      "U+2C30", "U+2C31", "U+2C32", "U+2C33", "U+2C34", "U+2C35", "U+2C36",
      "U+2C37", "U+2C38", "U+2C39", "U+2C3A", "U+2C3B", "U+2C3C", "U+2C3D",
      "U+2C3E", "U+2C3F", "U+2C40", "U+2C41", "U+2C42", "U+2C43", "U+2C44",
      "U+2C45", "U+2C46", "U+2C47", "U+2C48", "U+2C49", "U+2C4A", "U+2C4B",
      "U+2C4C", "U+2C4D", "U+2C4E", "U+2C4F", "U+2C50", "U+2C51", "U+2C52",
      "U+2C53", "U+2C54", "U+2C55", "U+2C56", "U+2C57", "U+2C58", "U+2C59",
      "U+2C5A", "U+2C5B", "U+2C5C", "U+2C5D", "U+2C5E", "U+2C5F", "U+2C61",
      "U+026B", "U+1D7D", "U+027D", "U+2C68", "U+2C6A", "U+2C6C", "U+0251",
      "U+0271", "U+0250", "U+0252", "U+2C73", "U+2C76", "U+023F", "U+0240",
      "U+2C81", "U+2C83", "U+2C85", "U+2C87", "U+2C89", "U+2C8B", "U+2C8D",
      "U+2C8F", "U+2C91", "U+2C93", "U+2C95", "U+2C97", "U+2C99", "U+2C9B",
      "U+2C9D", "U+2C9F", "U+2CA1", "U+2CA3", "U+2CA5", "U+2CA7", "U+2CA9",
      "U+2CAB", "U+2CAD", "U+2CAF", "U+2CB1", "U+2CB3", "U+2CB5", "U+2CB7",
      "U+2CB9", "U+2CBB", "U+2CBD", "U+2CBF", "U+2CC1", "U+2CC3", "U+2CC5",
      "U+2CC7", "U+2CC9", "U+2CCB", "U+2CCD", "U+2CCF", "U+2CD1", "U+2CD3",
      "U+2CD5", "U+2CD7", "U+2CD9", "U+2CDB", "U+2CDD", "U+2CDF", "U+2CE1",
      "U+2CE3", "U+2CEC", "U+2CEE", "U+2CF3", "U+A641", "U+A643", "U+A645",
      "U+A647", "U+A649", "U+A64B", "U+A64D", "U+A64F", "U+A651", "U+A653",
      "U+A655", "U+A657", "U+A659", "U+A65B", "U+A65D", "U+A65F", "U+A661",
      "U+A663", "U+A665", "U+A667", "U+A669", "U+A66B", "U+A66D", "U+A681",
      "U+A683", "U+A685", "U+A687", "U+A689", "U+A68B", "U+A68D", "U+A68F",
      "U+A691", "U+A693", "U+A695", "U+A697", "U+A699", "U+A69B", "U+A723",
      "U+A725", "U+A727", "U+A729", "U+A72B", "U+A72D", "U+A72F", "U+A733",
      "U+A735", "U+A737", "U+A739", "U+A73B", "U+A73D", "U+A73F", "U+A741",
      "U+A743", "U+A745", "U+A747", "U+A749", "U+A74B", "U+A74D", "U+A74F",
      "U+A751", "U+A753", "U+A755", "U+A757", "U+A759", "U+A75B", "U+A75D",
      "U+A75F", "U+A761", "U+A763", "U+A765", "U+A767", "U+A769", "U+A76B",
      "U+A76D", "U+A76F", "U+A77A", "U+A77C", "U+1D79", "U+A77F", "U+A781",
      "U+A783", "U+A785", "U+A787", "U+A78C", "U+0265", "U+A791", "U+A793",
      "U+A797", "U+A799", "U+A79B", "U+A79D", "U+A79F", "U+A7A1", "U+A7A3",
      "U+A7A5", "U+A7A7", "U+A7A9", "U+0266", "U+025C", "U+0261", "U+026C",
      "U+026A", "U+029E", "U+0287", "U+029D", "U+AB53", "U+A7B5", "U+A7B7",
      "U+A7B9", "U+A7BB", "U+A7BD", "U+A7BF", "U+A7C1", "U+A7C3", "U+A794",
      "U+0282", "U+1D8E", "U+A7C8", "U+A7CA", "U+0264", "U+A7CD", "U+A7CF",
      "U+A7D1", "U+A7D3", "U+A7D5", "U+A7D7", "U+A7D9", "U+A7DB", "U+019B",
      "U+A7F6", "U+FF41", "U+FF42", "U+FF43", "U+FF44", "U+FF45", "U+FF46",
      "U+FF47", "U+FF48", "U+FF49", "U+FF4A", "U+FF4B", "U+FF4C", "U+FF4D",
      "U+FF4E", "U+FF4F", "U+FF50", "U+FF51", "U+FF52", "U+FF53", "U+FF54",
      "U+FF55", "U+FF56", "U+FF57", "U+FF58", "U+FF59", "U+FF5A">>

\* the letters outside the Basic Multilingual Plane that have a lower case:
\* high surrogate, low surrogate, low surrogate of the lower case (the high
\* surrogate stays)
UpperSupplementary ==
    {<<"U+D801", "U+DC00", "U+DC28">>, <<"U+D801", "U+DC01", "U+DC29">>,
     <<"U+D801", "U+DC02", "U+DC2A">>, <<"U+D801", "U+DC03", "U+DC2B">>,
     <<"U+D801", "U+DC04", "U+DC2C">>, <<"U+D801", "U+DC05", "U+DC2D">>,
     <<"U+D801", "U+DC06", "U+DC2E">>, <<"U+D801", "U+DC07", "U+DC2F">>,
     <<"U+D801", "U+DC08", "U+DC30">>, <<"U+D801", "U+DC09", "U+DC31">>,
     <<"U+D801", "U+DC0A", "U+DC32">>, <<"U+D801", "U+DC0B", "U+DC33">>,
     <<"U+D801", "U+DC0C", "U+DC34">>, <<"U+D801", "U+DC0D", "U+DC35">>,
     <<"U+D801", "U+DC0E", "U+DC36">>, <<"U+D801", "U+DC0F", "U+DC37">>,
     <<"U+D801", "U+DC10", "U+DC38">>, <<"U+D801", "U+DC11", "U+DC39">>,
     <<"U+D801", "U+DC12", "U+DC3A">>, <<"U+D801", "U+DC13", "U+DC3B">>,
     <<"U+D801", "U+DC14", "U+DC3C">>, <<"U+D801", "U+DC15", "U+DC3D">>,
     <<"U+D801", "U+DC16", "U+DC3E">>, <<"U+D801", "U+DC17", "U+DC3F">>,
     <<"U+D801", "U+DC18", "U+DC40">>, <<"U+D801", "U+DC19", "U+DC41">>,
     <<"U+D801", "U+DC1A", "U+DC42">>, <<"U+D801", "U+DC1B", "U+DC43">>,
     <<"U+D801", "U+DC1C", "U+DC44">>, <<"U+D801", "U+DC1D", "U+DC45">>,
     <<"U+D801", "U+DC1E", "U+DC46">>, <<"U+D801", "U+DC1F", "U+DC47">>,
     <<"U+D801", "U+DC20", "U+DC48">>, <<"U+D801", "U+DC21", "U+DC49">>,
     <<"U+D801", "U+DC22", "U+DC4A">>, <<"U+D801", "U+DC23", "U+DC4B">>,
     <<"U+D801", "U+DC24", "U+DC4C">>, <<"U+D801", "U+DC25", "U+DC4D">>,
     <<"U+D801", "U+DC26", "U+DC4E">>, <<"U+D801", "U+DC27", "U+DC4F">>,
     <<"U+D801", "U+DCB0", "U+DCD8">>, <<"U+D801", "U+DCB1", "U+DCD9">>,
     <<"U+D801", "U+DCB2", "U+DCDA">>, <<"U+D801", "U+DCB3", "U+DCDB">>,
     <<"U+D801", "U+DCB4", "U+DCDC">>, <<"U+D801", "U+DCB5", "U+DCDD">>,
     <<"U+D801", "U+DCB6", "U+DCDE">>, <<"U+D801", "U+DCB7", "U+DCDF">>,
     <<"U+D801", "U+DCB8", "U+DCE0">>, <<"U+D801", "U+DCB9", "U+DCE1">>,
     <<"U+D801", "U+DCBA", "U+DCE2">>, <<"U+D801", "U+DCBB", "U+DCE3">>,
     <<"U+D801", "U+DCBC", "U+DCE4">>, <<"U+D801", "U+DCBD", "U+DCE5">>,
     <<"U+D801", "U+DCBE", "U+DCE6">>, <<"U+D801", "U+DCBF", "U+DCE7">>,
     <<"U+D801", "U+DCC0", "U+DCE8">>, <<"U+D801", "U+DCC1", "U+DCE9">>,
     <<"U+D801", "U+DCC2", "U+DCEA">>, <<"U+D801", "U+DCC3", "U+DCEB">>,
     <<"U+D801", "U+DCC4", "U+DCEC">>, <<"U+D801", "U+DCC5", "U+DCED">>,
     <<"U+D801", "U+DCC6", "U+DCEE">>, <<"U+D801", "U+DCC7", "U+DCEF">>,
     <<"U+D801", "U+DCC8", "U+DCF0">>, <<"U+D801", "U+DCC9", "U+DCF1">>,
     <<"U+D801", "U+DCCA", "U+DCF2">>, <<"U+D801", "U+DCCB", "U+DCF3">>,
     <<"U+D801", "U+DCCC", "U+DCF4">>, <<"U+D801", "U+DCCD", "U+DCF5">>,
     <<"U+D801", "U+DCCE", "U+DCF6">>, <<"U+D801", "U+DCCF", "U+DCF7">>,
     <<"U+D801", "U+DCD0", "U+DCF8">>, <<"U+D801", "U+DCD1", "U+DCF9">>,
     <<"U+D801", "U+DCD2", "U+DCFA">>, <<"U+D801", "U+DCD3", "U+DCFB">>,
     <<"U+D801", "U+DD70", "U+DD97">>, <<"U+D801", "U+DD71", "U+DD98">>,
     <<"U+D801", "U+DD72", "U+DD99">>, <<"U+D801", "U+DD73", "U+DD9A">>,
     <<"U+D801", "U+DD74", "U+DD9B">>, <<"U+D801", "U+DD75", "U+DD9C">>,
     <<"U+D801", "U+DD76", "U+DD9D">>, <<"U+D801", "U+DD77", "U+DD9E">>,
     <<"U+D801", "U+DD78", "U+DD9F">>, <<"U+D801", "U+DD79", "U+DDA0">>,
     <<"U+D801", "U+DD7A", "U+DDA1">>, <<"U+D801", "U+DD7C", "U+DDA3">>,
     <<"U+D801", "U+DD7D", "U+DDA4">>, <<"U+D801", "U+DD7E", "U+DDA5">>,
     <<"U+D801", "U+DD7F", "U+DDA6">>, <<"U+D801", "U+DD80", "U+DDA7">>,
     <<"U+D801", "U+DD81", "U+DDA8">>, <<"U+D801", "U+DD82", "U+DDA9">>,
     <<"U+D801", "U+DD83", "U+DDAA">>, <<"U+D801", "U+DD84", "U+DDAB">>,
     <<"U+D801", "U+DD85", "U+DDAC">>, <<"U+D801", "U+DD86", "U+DDAD">>,
     <<"U+D801", "U+DD87", "U+DDAE">>, <<"U+D801", "U+DD88", "U+DDAF">>,
     <<"U+D801", "U+DD89", "U+DDB0">>, <<"U+D801", "U+DD8A", "U+DDB1">>,
     <<"U+D801", "U+DD8C", "U+DDB3">>, <<"U+D801", "U+DD8D", "U+DDB4">>,
     <<"U+D801", "U+DD8E", "U+DDB5">>, <<"U+D801", "U+DD8F", "U+DDB6">>,
     <<"U+D801", "U+DD90", "U+DDB7">>, <<"U+D801", "U+DD91", "U+DDB8">>,
     <<"U+D801", "U+DD92", "U+DDB9">>, <<"U+D801", "U+DD94", "U+DDBB">>,
     <<"U+D801", "U+DD95", "U+DDBC">>, <<"U+D803", "U+DC80", "U+DCC0">>,
     <<"U+D803", "U+DC81", "U+DCC1">>, <<"U+D803", "U+DC82", "U+DCC2">>,
     <<"U+D803", "U+DC83", "U+DCC3">>, <<"U+D803", "U+DC84", "U+DCC4">>,
     <<"U+D803", "U+DC85", "U+DCC5">>, <<"U+D803", "U+DC86", "U+DCC6">>,
     <<"U+D803", "U+DC87", "U+DCC7">>, <<"U+D803", "U+DC88", "U+DCC8">>,
     <<"U+D803", "U+DC89", "U+DCC9">>, <<"U+D803", "U+DC8A", "U+DCCA">>,
     <<"U+D803", "U+DC8B", "U+DCCB">>, <<"U+D803", "U+DC8C", "U+DCCC">>,
     <<"U+D803", "U+DC8D", "U+DCCD">>, <<"U+D803", "U+DC8E", "U+DCCE">>,
     <<"U+D803", "U+DC8F", "U+DCCF">>, <<"U+D803", "U+DC90", "U+DCD0">>,
     <<"U+D803", "U+DC91", "U+DCD1">>, <<"U+D803", "U+DC92", "U+DCD2">>,
     <<"U+D803", "U+DC93", "U+DCD3">>, <<"U+D803", "U+DC94", "U+DCD4">>,
     <<"U+D803", "U+DC95", "U+DCD5">>, <<"U+D803", "U+DC96", "U+DCD6">>,
     <<"U+D803", "U+DC97", "U+DCD7">>, <<"U+D803", "U+DC98", "U+DCD8">>,
     <<"U+D803", "U+DC99", "U+DCD9">>, <<"U+D803", "U+DC9A", "U+DCDA">>,
     <<"U+D803", "U+DC9B", "U+DCDB">>, <<"U+D803", "U+DC9C", "U+DCDC">>,
     <<"U+D803", "U+DC9D", "U+DCDD">>, <<"U+D803", "U+DC9E", "U+DCDE">>,
     <<"U+D803", "U+DC9F", "U+DCDF">>, <<"U+D803", "U+DCA0", "U+DCE0">>,
     <<"U+D803", "U+DCA1", "U+DCE1">>, <<"U+D803", "U+DCA2", "U+DCE2">>,
     <<"U+D803", "U+DCA3", "U+DCE3">>, <<"U+D803", "U+DCA4", "U+DCE4">>,
     <<"U+D803", "U+DCA5", "U+DCE5">>, <<"U+D803", "U+DCA6", "U+DCE6">>,
     <<"U+D803", "U+DCA7", "U+DCE7">>, <<"U+D803", "U+DCA8", "U+DCE8">>,
     <<"U+D803", "U+DCA9", "U+DCE9">>, <<"U+D803", "U+DCAA", "U+DCEA">>,
     <<"U+D803", "U+DCAB", "U+DCEB">>, <<"U+D803", "U+DCAC", "U+DCEC">>,
     <<"U+D803", "U+DCAD", "U+DCED">>, <<"U+D803", "U+DCAE", "U+DCEE">>,
     <<"U+D803", "U+DCAF", "U+DCEF">>, <<"U+D803", "U+DCB0", "U+DCF0">>,
     <<"U+D803", "U+DCB1", "U+DCF1">>, <<"U+D803", "U+DCB2", "U+DCF2">>,
     <<"U+D803", "U+DD50", "U+DD70">>, <<"U+D803", "U+DD51", "U+DD71">>,
     <<"U+D803", "U+DD52", "U+DD72">>, <<"U+D803", "U+DD53", "U+DD73">>,
     <<"U+D803", "U+DD54", "U+DD74">>, <<"U+D803", "U+DD55", "U+DD75">>,
     <<"U+D803", "U+DD56", "U+DD76">>, <<"U+D803", "U+DD57", "U+DD77">>,
     <<"U+D803", "U+DD58", "U+DD78">>, <<"U+D803", "U+DD59", "U+DD79">>,
     <<"U+D803", "U+DD5A", "U+DD7A">>, <<"U+D803", "U+DD5B", "U+DD7B">>,
     <<"U+D803", "U+DD5C", "U+DD7C">>, <<"U+D803", "U+DD5D", "U+DD7D">>,
     <<"U+D803", "U+DD5E", "U+DD7E">>, <<"U+D803", "U+DD5F", "U+DD7F">>,
     <<"U+D803", "U+DD60", "U+DD80">>, <<"U+D803", "U+DD61", "U+DD81">>,
     <<"U+D803", "U+DD62", "U+DD82">>, <<"U+D803", "U+DD63", "U+DD83">>,
     <<"U+D803", "U+DD64", "U+DD84">>, <<"U+D803", "U+DD65", "U+DD85">>,
     <<"U+D806", "U+DCA0", "U+DCC0">>, <<"U+D806", "U+DCA1", "U+DCC1">>,
     <<"U+D806", "U+DCA2", "U+DCC2">>, <<"U+D806", "U+DCA3", "U+DCC3">>,
     <<"U+D806", "U+DCA4", "U+DCC4">>, <<"U+D806", "U+DCA5", "U+DCC5">>,
     <<"U+D806", "U+DCA6", "U+DCC6">>, <<"U+D806", "U+DCA7", "U+DCC7">>,
     <<"U+D806", "U+DCA8", "U+DCC8">>, <<"U+D806", "U+DCA9", "U+DCC9">>,
     <<"U+D806", "U+DCAA", "U+DCCA">>, <<"U+D806", "U+DCAB", "U+DCCB">>,
     <<"U+D806", "U+DCAC", "U+DCCC">>, <<"U+D806", "U+DCAD", "U+DCCD">>,
     <<"U+D806", "U+DCAE", "U+DCCE">>, <<"U+D806", "U+DCAF", "U+DCCF">>,
     <<"U+D806", "U+DCB0", "U+DCD0">>, <<"U+D806", "U+DCB1", "U+DCD1">>,
     <<"U+D806", "U+DCB2", "U+DCD2">>, <<"U+D806", "U+DCB3", "U+DCD3">>,
     <<"U+D806", "U+DCB4", "U+DCD4">>, <<"U+D806", "U+DCB5", "U+DCD5">>,
     <<"U+D806", "U+DCB6", "U+DCD6">>, <<"U+D806", "U+DCB7", "U+DCD7">>,
     <<"U+D806", "U+DCB8", "U+DCD8">>, <<"U+D806", "U+DCB9", "U+DCD9">>,
     <<"U+D806", "U+DCBA", "U+DCDA">>, <<"U+D806", "U+DCBB", "U+DCDB">>,
     <<"U+D806", "U+DCBC", "U+DCDC">>, <<"U+D806", "U+DCBD", "U+DCDD">>,
     <<"U+D806", "U+DCBE", "U+DCDE">>, <<"U+D806", "U+DCBF", "U+DCDF">>,
     <<"U+D81B", "U+DE40", "U+DE60">>, <<"U+D81B", "U+DE41", "U+DE61">>,
     <<"U+D81B", "U+DE42", "U+DE62">>, <<"U+D81B", "U+DE43", "U+DE63">>,
     <<"U+D81B", "U+DE44", "U+DE64">>, <<"U+D81B", "U+DE45", "U+DE65">>,
     <<"U+D81B", "U+DE46", "U+DE66">>, <<"U+D81B", "U+DE47", "U+DE67">>,
     <<"U+D81B", "U+DE48", "U+DE68">>, <<"U+D81B", "U+DE49", "U+DE69">>,
     <<"U+D81B", "U+DE4A", "U+DE6A">>, <<"U+D81B", "U+DE4B", "U+DE6B">>,
     <<"U+D81B", "U+DE4C", "U+DE6C">>, <<"U+D81B", "U+DE4D", "U+DE6D">>,
     <<"U+D81B", "U+DE4E", "U+DE6E">>, <<"U+D81B", "U+DE4F", "U+DE6F">>,
     <<"U+D81B", "U+DE50", "U+DE70">>, <<"U+D81B", "U+DE51", "U+DE71">>,
     <<"U+D81B", "U+DE52", "U+DE72">>, <<"U+D81B", "U+DE53", "U+DE73">>,
     <<"U+D81B", "U+DE54", "U+DE74">>, <<"U+D81B", "U+DE55", "U+DE75">>,
     <<"U+D81B", "U+DE56", "U+DE76">>, <<"U+D81B", "U+DE57", "U+DE77">>,
     <<"U+D81B", "U+DE58", "U+DE78">>, <<"U+D81B", "U+DE59", "U+DE79">>,
     <<"U+D81B", "U+DE5A", "U+DE7A">>, <<"U+D81B", "U+DE5B", "U+DE7B">>,
     <<"U+D81B", "U+DE5C", "U+DE7C">>, <<"U+D81B", "U+DE5D", "U+DE7D">>,
     <<"U+D81B", "U+DE5E", "U+DE7E">>, <<"U+D81B", "U+DE5F", "U+DE7F">>,
     <<"U+D81B", "U+DEA0", "U+DEBB">>, <<"U+D81B", "U+DEA1", "U+DEBC">>,
     <<"U+D81B", "U+DEA2", "U+DEBD">>, <<"U+D81B", "U+DEA3", "U+DEBE">>,
     <<"U+D81B", "U+DEA4", "U+DEBF">>, <<"U+D81B", "U+DEA5", "U+DEC0">>,
     <<"U+D81B", "U+DEA6", "U+DEC1">>, <<"U+D81B", "U+DEA7", "U+DEC2">>,
     <<"U+D81B", "U+DEA8", "U+DEC3">>, <<"U+D81B", "U+DEA9", "U+DEC4">>,
     <<"U+D81B", "U+DEAA", "U+DEC5">>, <<"U+D81B", "U+DEAB", "U+DEC6">>,
     <<"U+D81B", "U+DEAC", "U+DEC7">>, <<"U+D81B", "U+DEAD", "U+DEC8">>,
     <<"U+D81B", "U+DEAE", "U+DEC9">>, <<"U+D81B", "U+DEAF", "U+DECA">>,
     <<"U+D81B", "U+DEB0", "U+DECB">>, <<"U+D81B", "U+DEB1", "U+DECC">>,
     <<"U+D81B", "U+DEB2", "U+DECD">>, <<"U+D81B", "U+DEB3", "U+DECE">>,
     <<"U+D81B", "U+DEB4", "U+DECF">>, <<"U+D81B", "U+DEB5", "U+DED0">>,
     <<"U+D81B", "U+DEB6", "U+DED1">>, <<"U+D81B", "U+DEB7", "U+DED2">>,
     <<"U+D81B", "U+DEB8", "U+DED3">>, <<"U+D83A", "U+DD00", "U+DD22">>,
     <<"U+D83A", "U+DD01", "U+DD23">>, <<"U+D83A", "U+DD02", "U+DD24">>,
     <<"U+D83A", "U+DD03", "U+DD25">>, <<"U+D83A", "U+DD04", "U+DD26">>,
     <<"U+D83A", "U+DD05", "U+DD27">>, <<"U+D83A", "U+DD06", "U+DD28">>,
     <<"U+D83A", "U+DD07", "U+DD29">>, <<"U+D83A", "U+DD08", "U+DD2A">>,
     <<"U+D83A", "U+DD09", "U+DD2B">>, <<"U+D83A", "U+DD0A", "U+DD2C">>,
     <<"U+D83A", "U+DD0B", "U+DD2D">>, <<"U+D83A", "U+DD0C", "U+DD2E">>,
     <<"U+D83A", "U+DD0D", "U+DD2F">>, <<"U+D83A", "U+DD0E", "U+DD30">>,
     <<"U+D83A", "U+DD0F", "U+DD31">>, <<"U+D83A", "U+DD10", "U+DD32">>,
     <<"U+D83A", "U+DD11", "U+DD33">>, <<"U+D83A", "U+DD12", "U+DD34">>,
     <<"U+D83A", "U+DD13", "U+DD35">>, <<"U+D83A", "U+DD14", "U+DD36">>,
     <<"U+D83A", "U+DD15", "U+DD37">>, <<"U+D83A", "U+DD16", "U+DD38">>,
     <<"U+D83A", "U+DD17", "U+DD39">>, <<"U+D83A", "U+DD18", "U+DD3A">>,
     <<"U+D83A", "U+DD19", "U+DD3B">>, <<"U+D83A", "U+DD1A", "U+DD3C">>,
     <<"U+D83A", "U+DD1B", "U+DD3D">>, <<"U+D83A", "U+DD1C", "U+DD3E">>,
     <<"U+D83A", "U+DD1D", "U+DD3F">>, <<"U+D83A", "U+DD1E", "U+DD40">>,
     <<"U+D83A", "U+DD1F", "U+DD41">>, <<"U+D83A", "U+DD20", "U+DD42">>,
     <<"U+D83A", "U+DD21", "U+DD43">>}

\* the characters with the property Cased that are not Case_Ignorable
Cased ==
    {"A", "B", "C", "D", "E", "F", "G", "H", "I", "J", "K", "L", "M", "N",
     "O", "P", "Q", "R", "S", "T", "U", "V", "W", "X", "Y", "Z", "a", "b",
     "c", "d", "e", "f", "g", "h", "i", "j", "k", "l", "m", "n", "o", "p",
     "q", "r", "s", "t", "u", "v", "w", "x", "y", "z", "U+00AA", "U+00B5",
     "U+00BA", "U+00C0", "U+00C1", "U+00C2", "U+00C3", "U+00C4", "U+00C5",
     "U+00C6", "U+00C7", "U+00C8", "U+00C9", "U+00CA", "U+00CB", "U+00CC",
     "U+00CD", "U+00CE", "U+00CF", "U+00D0", "U+00D1", "U+00D2", "U+00D3",
     "U+00D4", "U+00D5", "U+00D6", "U+00D8", "U+00D9", "U+00DA", "U+00DB",
     "U+00DC", "U+00DD", "U+00DE", "U+00DF", "U+00E0", "U+00E1", "U+00E2",
     "U+00E3", "U+00E4", "U+00E5", "U+00E6", "U+00E7", "U+00E8", "U+00E9",
     "U+00EA", "U+00EB", "U+00EC", "U+00ED", "U+00EE", "U+00EF", "U+00F0",
     "U+00F1", "U+00F2", "U+00F3", "U+00F4", "U+00F5", "U+00F6", "U+00F8",
     "U+00F9", "U+00FA", "U+00FB", "U+00FC", "U+00FD", "U+00FE", "U+00FF",
     "U+0100", "U+0101", "U+0102", "U+0103", "U+0104", "U+0105", "U+0106",
     "U+0107", "U+0108", "U+0109", "U+010A", "U+010B", "U+010C", "U+010D",
     "U+010E", "U+010F", "U+0110", "U+0111", "U+0112", "U+0113", "U+0114",
     "U+0115", "U+0116", "U+0117", "U+0118", "U+0119", "U+011A", "U+011B",
     "U+011C", "U+011D", "U+011E", "U+011F", "U+0120", "U+0121", "U+0122",
     "U+0123", "U+0124", "U+0125", "U+0126", "U+0127", "U+0128", "U+0129",
     "U+012A", "U+012B", "U+012C", "U+012D", "U+012E", "U+012F", "U+0130",
     "U+0131", "U+0132", "U+0133", "U+0134", "U+0135", "U+0136", "U+0137",
     "U+0138", "U+0139", "U+013A", "U+013B", "U+013C", "U+013D", "U+013E",
     "U+013F", "U+0140", "U+0141", "U+0142", "U+0143", "U+0144", "U+0145",
     "U+0146", "U+0147", "U+0148", "U+0149", "U+014A", "U+014B", "U+014C",
     "U+014D", "U+014E", "U+014F", "U+0150", "U+0151", "U+0152", "U+0153",
     "U+0154", "U+0155", "U+0156", "U+0157", "U+0158", "U+0159", "U+015A",
     "U+015B", "U+015C", "U+015D", "U+015E", "U+015F", "U+0160", "U+0161",
     "U+0162", "U+0163", "U+0164", "U+0165", "U+0166", "U+0167", "U+0168",
     "U+0169", "U+016A", "U+016B", "U+016C", "U+016D", "U+016E", "U+016F",
     "U+0170", "U+0171", "U+0172", "U+0173", "U+0174", "U+0175", "U+0176",
     "U+0177", "U+0178", "U+0179", "U+017A", "U+017B", "U+017C", "U+017D",
     "U+017E", "U+017F", "U+0180", "U+0181", "U+0182", "U+0183", "U+0184",
     "U+0185", "U+0186", "U+0187", "U+0188", "U+0189", "U+018A", "U+018B",
     "U+018C", "U+018D", "U+018E", "U+018F", "U+0190", "U+0191", "U+0192",
     "U+0193", "U+0194", "U+0195", "U+0196", "U+0197", "U+0198", "U+0199",
     "U+019A", "U+019B", "U+019C", "U+019D", "U+019E", "U+019F", "U+01A0",
     "U+01A1", "U+01A2", "U+01A3", "U+01A4", "U+01A5", "U+01A6", "U+01A7",
     "U+01A8", "U+01A9", "U+01AA", "U+01AB", "U+01AC", "U+01AD", "U+01AE",
     "U+01AF", "U+01B0", "U+01B1", "U+01B2", "U+01B3", "U+01B4", "U+01B5",
     "U+01B6", "U+01B7", "U+01B8", "U+01B9", "U+01BA", "U+01BC", "U+01BD",
     "U+01BE", "U+01BF", "U+01C4", "U+01C5", "U+01C6", "U+01C7", "U+01C8",
     "U+01C9", "U+01CA", "U+01CB", "U+01CC", "U+01CD", "U+01CE", "U+01CF",
     "U+01D0", "U+01D1", "U+01D2", "U+01D3", "U+01D4", "U+01D5", "U+01D6",
     "U+01D7", "U+01D8", "U+01D9", "U+01DA", "U+01DB", "U+01DC", "U+01DD",
     "U+01DE", "U+01DF", "U+01E0", "U+01E1", "U+01E2", "U+01E3", "U+01E4",
     "U+01E5", "U+01E6", "U+01E7", "U+01E8", "U+01E9", "U+01EA", "U+01EB",
     "U+01EC", "U+01ED", "U+01EE", "U+01EF", "U+01F0", "U+01F1", "U+01F2",
     "U+01F3", "U+01F4", "U+01F5", "U+01F6", "U+01F7", "U+01F8", "U+01F9",
     "U+01FA", "U+01FB", "U+01FC", "U+01FD", "U+01FE", "U+01FF", "U+0200",
     "U+0201", "U+0202", "U+0203", "U+0204", "U+0205", "U+0206", "U+0207",
     "U+0208", "U+0209", "U+020A", "U+020B", "U+020C", "U+020D", "U+020E",
     "U+020F", "U+0210", "U+0211", "U+0212", "U+0213", "U+0214", "U+0215",
     "U+0216", "U+0217", "U+0218", "U+0219", "U+021A", "U+021B", "U+021C",
     "U+021D", "U+021E", "U+021F", "U+0220", "U+0221", "U+0222", "U+0223",
     "U+0224", "U+0225", "U+0226", "U+0227", "U+0228", "U+0229", "U+022A",
     "U+022B", "U+022C", "U+022D", "U+022E", "U+022F", "U+0230", "U+0231",
     "U+0232", "U+0233", "U+0234", "U+0235", "U+0236", "U+0237", "U+0238",
     "U+0239", "U+023A", "U+023B", "U+023C", "U+023D", "U+023E", "U+023F",
     "U+0240", "U+0241", "U+0242", "U+0243", "U+0244", "U+0245", "U+0246",
     "U+0247", "U+0248", "U+0249", "U+024A", "U+024B", "U+024C", "U+024D",
     "U+024E", "U+024F", "U+0250", "U+0251", "U+0252", "U+0253", "U+0254",
     "U+0255", "U+0256", "U+0257", "U+0258", "U+0259", "U+025A", "U+025B",
     "U+025C", "U+025D", "U+025E", "U+025F", "U+0260", "U+0261", "U+0262",
     "U+0263", "U+0264", "U+0265", "U+0266", "U+0267", "U+0268", "U+0269",
     "U+026A", "U+026B", "U+026C", "U+026D", "U+026E", "U+026F", "U+0270",
     "U+0271", "U+0272", "U+0273", "U+0274", "U+0275", "U+0276", "U+0277",
     "U+0278", "U+0279", "U+027A", "U+027B", "U+027C", "U+027D", "U+027E",
     "U+027F", "U+0280", "U+0281", "U+0282", "U+0283", "U+0284", "U+0285",
     "U+0286", "U+0287", "U+0288", "U+0289", "U+028A", "U+028B", "U+028C",
     "U+028D", "U+028E", "U+028F", "U+0290", "U+0291", "U+0292", "U+0293",
     "U+0296", "U+0297", "U+0298", "U+0299", "U+029A", "U+029B", "U+029C",
     "U+029D", "U+029E", "U+029F", "U+02A0", "U+02A1", "U+02A2", "U+02A3",
     "U+02A4", "U+02A5", "U+02A6", "U+02A7", "U+02A8", "U+02A9", "U+02AA",
     "U+02AB", "U+02AC", "U+02AD", "U+02AE", "U+02AF", "U+0370", "U+0371",
     "U+0372", "U+0373", "U+0376", "U+0377", "U+037B", "U+037C", "U+037D",
     "U+037F", "U+0386", "U+0388", "U+0389", "U+038A", "U+038C", "U+038E",
     "U+038F", "U+0390", "U+0391", "U+0392", "U+0393", "U+0394", "U+0395",
     "U+0396", "U+0397", "U+0398", "U+0399", "U+039A", "U+039B", "U+039C",
     "U+039D", "U+039E", "U+039F", "U+03A0", "U+03A1", "U+03A3", "U+03A4",
     "U+03A5", "U+03A6", "U+03A7", "U+03A8", "U+03A9", "U+03AA", "U+03AB",
     "U+03AC", "U+03AD", "U+03AE", "U+03AF", "U+03B0", "U+03B1", "U+03B2",
     "U+03B3", "U+03B4", "U+03B5", "U+03B6", "U+03B7", "U+03B8", "U+03B9",
     "U+03BA", "U+03BB", "U+03BC", "U+03BD", "U+03BE", "U+03BF", "U+03C0",
     "U+03C1", "U+03C2", "U+03C3", "U+03C4", "U+03C5", "U+03C6", "U+03C7",
     "U+03C8", "U+03C9", "U+03CA", "U+03CB", "U+03CC", "U+03CD", "U+03CE",
     "U+03CF", "U+03D0", "U+03D1", "U+03D2", "U+03D3", "U+03D4", "U+03D5",
     "U+03D6", "U+03D7", "U+03D8", "U+03D9", "U+03DA", "U+03DB", "U+03DC",
     "U+03DD", "U+03DE", "U+03DF", "U+03E0", "U+03E1", "U+03E2", "U+03E3",
     "U+03E4", "U+03E5", "U+03E6", "U+03E7", "U+03E8", "U+03E9", "U+03EA",
     "U+03EB", "U+03EC", "U+03ED", "U+03EE", "U+03EF", "U+03F0", "U+03F1",
     "U+03F2", "U+03F3", "U+03F4", "U+03F5", "U+03F7", "U+03F8", "U+03F9",
     "U+03FA", "U+03FB", "U+03FC", "U+03FD", "U+03FE", "U+03FF", "U+0400",
     "U+0401", "U+0402", "U+0403", "U+0404", "U+0405", "U+0406", "U+0407",
     "U+0408", "U+0409", "U+040A", "U+040B", "U+040C", "U+040D", "U+040E",
     "U+040F", "U+0410", "U+0411", "U+0412", "U+0413", "U+0414", "U+0415",
     "U+0416", "U+0417", "U+0418", "U+0419", "U+041A", "U+041B", "U+041C",
     "U+041D", "U+041E", "U+041F", "U+0420", "U+0421", "U+0422", "U+0423",
     "U+0424", "U+0425", "U+0426", "U+0427", "U+0428", "U+0429", "U+042A",
     "U+042B", "U+042C", "U+042D", "U+042E", "U+042F", "U+0430", "U+0431",
     "U+0432", "U+0433", "U+0434", "U+0435", "U+0436", "U+0437", "U+0438",
     "U+0439", "U+043A", "U+043B", "U+043C", "U+043D", "U+043E", "U+043F",
     "U+0440", "U+0441", "U+0442", "U+0443", "U+0444", "U+0445", "U+0446",
     "U+0447", "U+0448", "U+0449", "U+044A", "U+044B", "U+044C", "U+044D",
     "U+044E", "U+044F", "U+0450", "U+0451", "U+0452", "U+0453", "U+0454",
     "U+0455", "U+0456", "U+0457", "U+0458", "U+0459", "U+045A", "U+045B",
     "U+045C", "U+045D", "U+045E", "U+045F", "U+0460", "U+0461", "U+0462",
     "U+0463", "U+0464", "U+0465", "U+0466", "U+0467", "U+0468", "U+0469",
     "U+046A", "U+046B", "U+046C", "U+046D", "U+046E", "U+046F", "U+0470",
     "U+0471", "U+0472", "U+0473", "U+0474", "U+0475", "U+0476", "U+0477",
     "U+0478", "U+0479", "U+047A", "U+047B", "U+047C", "U+047D", "U+047E",
     "U+047F", "U+0480", "U+0481", "U+048A", "U+048B", "U+048C", "U+048D",
     "U+048E", "U+048F", "U+0490", "U+0491", "U+0492", "U+0493", "U+0494",
     "U+0495", "U+0496", "U+0497", "U+0498", "U+0499", "U+049A", "U+049B",
     "U+049C", "U+049D", "U+049E", "U+049F", "U+04A0", "U+04A1", "U+04A2",
     "U+04A3", "U+04A4", "U+04A5", "U+04A6", "U+04A7", "U+04A8", "U+04A9",
     "U+04AA", "U+04AB", "U+04AC", "U+04AD", "U+04AE", "U+04AF", "U+04B0",
     "U+04B1", "U+04B2", "U+04B3", "U+04B4", "U+04B5", "U+04B6", "U+04B7",
     "U+04B8", "U+04B9", "U+04BA", "U+04BB", "U+04BC", "U+04BD", "U+04BE",
     "U+04BF", "U+04C0", "U+04C1", "U+04C2", "U+04C3", "U+04C4", "U+04C5",
     "U+04C6", "U+04C7", "U+04C8", "U+04C9", "U+04CA", "U+04CB", "U+04CC",
     "U+04CD", "U+04CE", "U+04CF", "U+04D0", "U+04D1", "U+04D2", "U+04D3",
     "U+04D4", "U+04D5", "U+04D6", "U+04D7", "U+04D8", "U+04D9", "U+04DA",
     "U+04DB", "U+04DC", "U+04DD", "U+04DE", "U+04DF", "U+04E0", "U+04E1",
     "U+04E2", "U+04E3", "U+04E4", "U+04E5", "U+04E6", "U+04E7", "U+04E8",
     "U+04E9", "U+04EA", "U+04EB", "U+04EC", "U+04ED", "U+04EE", "U+04EF",
     "U+04F0", "U+04F1", "U+04F2", "U+04F3", "U+04F4", "U+04F5", "U+04F6",
     "U+04F7", "U+04F8", "U+04F9", "U+04FA", "U+04FB", "U+04FC", "U+04FD",
     "U+04FE", "U+04FF", "U+0500", "U+0501", "U+0502", "U+0503", "U+0504",
     "U+0505", "U+0506", "U+0507", "U+0508", "U+0509", "U+050A", "U+050B",
     "U+050C", "U+050D", "U+050E", "U+050F", "U+0510", "U+0511", "U+0512",
     "U+0513", "U+0514", "U+0515", "U+0516", "U+0517", "U+0518", "U+0519",
     "U+051A", "U+051B", "U+051C", "U+051D", "U+051E", "U+051F", "U+0520",
     "U+0521", "U+0522", "U+0523", "U+0524", "U+0525", "U+0526", "U+0527",
     "U+0528", "U+0529", "U+052A", "U+052B", "U+052C", "U+052D", "U+052E",
     "U+052F", "U+0531", "U+0532", "U+0533", "U+0534", "U+0535", "U+0536",
     "U+0537", "U+0538", "U+0539", "U+053A", "U+053B", "U+053C", "U+053D",
     "U+053E", "U+053F", "U+0540", "U+0541", "U+0542", "U+0543", "U+0544",
     "U+0545", "U+0546", "U+0547", "U+0548", "U+0549", "U+054A", "U+054B",
     "U+054C", "U+054D", "U+054E", "U+054F", "U+0550", "U+0551", "U+0552",
     "U+0553", "U+0554", "U+0555", "U+0556", "U+0560", "U+0561", "U+0562",
     "U+0563", "U+0564", "U+0565", "U+0566", "U+0567", "U+0568", "U+0569",
     "U+056A", "U+056B", "U+056C", "U+056D", "U+056E", "U+056F", "U+0570",
     "U+0571", "U+0572", "U+0573", "U+0574", "U+0575", "U+0576", "U+0577",
     "U+0578", "U+0579", "U+057A", "U+057B", "U+057C", "U+057D", "U+057E",
     "U+057F", "U+0580", "U+0581", "U+0582", "U+0583", "U+0584", "U+0585",
     "U+0586", "U+0587", "U+0588", "U+10A0", "U+10A1", "U+10A2", "U+10A3",
     "U+10A4", "U+10A5", "U+10A6", "U+10A7", "U+10A8", "U+10A9", "U+10AA",
     "U+10AB", "U+10AC", "U+10AD", "U+10AE", "U+10AF", "U+10B0", "U+10B1",
     "U+10B2", "U+10B3", "U+10B4", "U+10B5", "U+10B6", "U+10B7", "U+10B8",
     "U+10B9", "U+10BA", "U+10BB", "U+10BC", "U+10BD", "U+10BE", "U+10BF",
     "U+10C0", "U+10C1", "U+10C2", "U+10C3", "U+10C4", "U+10C5", "U+10C7",
     "U+10CD", "U+10D0", "U+10D1", "U+10D2", "U+10D3", "U+10D4", "U+10D5",
     "U+10D6", "U+10D7", "U+10D8", "U+10D9", "U+10DA", "U+10DB", "U+10DC",
     "U+10DD", "U+10DE", "U+10DF", "U+10E0", "U+10E1", "U+10E2", "U+10E3",
     "U+10E4", "U+10E5", "U+10E6", "U+10E7", "U+10E8", "U+10E9", "U+10EA",
     "U+10EB", "U+10EC", "U+10ED", "U+10EE", "U+10EF", "U+10F0", "U+10F1",
     "U+10F2", "U+10F3", "U+10F4", "U+10F5", "U+10F6", "U+10F7", "U+10F8",
     "U+10F9", "U+10FA", "U+10FD", "U+10FE", "U+10FF", "U+13A0", "U+13A1",
     "U+13A2", "U+13A3", "U+13A4", "U+13A5", "U+13A6", "U+13A7", "U+13A8",
     "U+13A9", "U+13AA", "U+13AB", "U+13AC", "U+13AD", "U+13AE", "U+13AF",
     "U+13B0", "U+13B1", "U+13B2", "U+13B3", "U+13B4", "U+13B5", "U+13B6",
     "U+13B7", "U+13B8", "U+13B9", "U+13BA", "U+13BB", "U+13BC", "U+13BD",
     "U+13BE", "U+13BF", "U+13C0", "U+13C1", "U+13C2", "U+13C3", "U+13C4",
     "U+13C5", "U+13C6", "U+13C7", "U+13C8", "U+13C9", "U+13CA", "U+13CB",
     "U+13CC", "U+13CD", "U+13CE", "U+13CF", "U+13D0", "U+13D1", "U+13D2",
     "U+13D3", "U+13D4", "U+13D5", "U+13D6", "U+13D7", "U+13D8", "U+13D9",
     "U+13DA", "U+13DB", "U+13DC", "U+13DD", "U+13DE", "U+13DF", "U+13E0",
     "U+13E1", "U+13E2", "U+13E3", "U+13E4", "U+13E5", "U+13E6", "U+13E7",
     "U+13E8", "U+13E9", "U+13EA", "U+13EB", "U+13EC", "U+13ED", "U+13EE",
     "U+13EF", "U+13F0", "U+13F1", "U+13F2", "U+13F3", "U+13F4", "U+13F5",
     "U+13F8", "U+13F9", "U+13FA", "U+13FB", "U+13FC", "U+13FD", "U+1C80",
     "U+1C81", "U+1C82", "U+1C83", "U+1C84", "U+1C85", "U+1C86", "U+1C87",
     "U+1C88", "U+1C89", "U+1C8A", "U+1C90", "U+1C91", "U+1C92", "U+1C93",
     "U+1C94", "U+1C95", "U+1C96", "U+1C97", "U+1C98", "U+1C99", "U+1C9A",
     "U+1C9B", "U+1C9C", "U+1C9D", "U+1C9E", "U+1C9F", "U+1CA0", "U+1CA1",
     "U+1CA2", "U+1CA3", "U+1CA4", "U+1CA5", "U+1CA6", "U+1CA7", "U+1CA8",
     "U+1CA9", "U+1CAA", "U+1CAB", "U+1CAC", "U+1CAD", "U+1CAE", "U+1CAF",
     "U+1CB0", "U+1CB1", "U+1CB2", "U+1CB3", "U+1CB4", "U+1CB5", "U+1CB6",
     "U+1CB7", "U+1CB8", "U+1CB9", "U+1CBA", "U+1CBD", "U+1CBE", "U+1CBF",
     "U+1D00", "U+1D01", "U+1D02", "U+1D03", "U+1D04", "U+1D05", "U+1D06",
     "U+1D07", "U+1D08", "U+1D09", "U+1D0A", "U+1D0B", "U+1D0C", "U+1D0D",
     "U+1D0E", "U+1D0F", "U+1D10", "U+1D11", "U+1D12", "U+1D13", "U+1D14",
     "U+1D15", "U+1D16", "U+1D17", "U+1D18", "U+1D19", "U+1D1A", "U+1D1B",
     "U+1D1C", "U+1D1D", "U+1D1E", "U+1D1F", "U+1D20", "U+1D21", "U+1D22",
     "U+1D23", "U+1D24", "U+1D25", "U+1D26", "U+1D27", "U+1D28", "U+1D29",
     "U+1D2A", "U+1D2B", "U+1D6B", "U+1D6C", "U+1D6D", "U+1D6E", "U+1D6F",
     "U+1D70", "U+1D71", "U+1D72", "U+1D73", "U+1D74", "U+1D75", "U+1D76",
     "U+1D77", "U+1D79", "U+1D7A", "U+1D7B", "U+1D7C", "U+1D7D", "U+1D7E",
     "U+1D7F", "U+1D80", "U+1D81", "U+1D82", "U+1D83", "U+1D84", "U+1D85",
     "U+1D86", "U+1D87", "U+1D88", "U+1D89", "U+1D8A", "U+1D8B", "U+1D8C",
     "U+1D8D", "U+1D8E", "U+1D8F", "U+1D90", "U+1D91", "U+1D92", "U+1D93",
     "U+1D94", "U+1D95", "U+1D96", "U+1D97", "U+1D98", "U+1D99", "U+1D9A",
     "U+1E00", "U+1E01", "U+1E02", "U+1E03", "U+1E04", "U+1E05", "U+1E06",
     "U+1E07", "U+1E08", "U+1E09", "U+1E0A", "U+1E0B", "U+1E0C", "U+1E0D",
     "U+1E0E", "U+1E0F", "U+1E10", "U+1E11", "U+1E12", "U+1E13", "U+1E14",
     "U+1E15", "U+1E16", "U+1E17", "U+1E18", "U+1E19", "U+1E1A", "U+1E1B",
     "U+1E1C", "U+1E1D", "U+1E1E", "U+1E1F", "U+1E20", "U+1E21", "U+1E22",
     "U+1E23", "U+1E24", "U+1E25", "U+1E26", "U+1E27", "U+1E28", "U+1E29",
     "U+1E2A", "U+1E2B", "U+1E2C", "U+1E2D", "U+1E2E", "U+1E2F", "U+1E30",
     "U+1E31", "U+1E32", "U+1E33", "U+1E34", "U+1E35", "U+1E36", "U+1E37",
     "U+1E38", "U+1E39", "U+1E3A", "U+1E3B", "U+1E3C", "U+1E3D", "U+1E3E",
     "U+1E3F", "U+1E40", "U+1E41", "U+1E42", "U+1E43", "U+1E44", "U+1E45",
     "U+1E46", "U+1E47", "U+1E48", "U+1E49", "U+1E4A", "U+1E4B", "U+1E4C",
     "U+1E4D", "U+1E4E", "U+1E4F", "U+1E50", "U+1E51", "U+1E52", "U+1E53",
     "U+1E54", "U+1E55", "U+1E56", "U+1E57", "U+1E58", "U+1E59", "U+1E5A",
     "U+1E5B", "U+1E5C", "U+1E5D", "U+1E5E", "U+1E5F", "U+1E60", "U+1E61",
     "U+1E62", "U+1E63", "U+1E64", "U+1E65", "U+1E66", "U+1E67", "U+1E68",
     "U+1E69", "U+1E6A", "U+1E6B", "U+1E6C", "U+1E6D", "U+1E6E", "U+1E6F",
     "U+1E70", "U+1E71", "U+1E72", "U+1E73", "U+1E74", "U+1E75", "U+1E76",
     "U+1E77", "U+1E78", "U+1E79", "U+1E7A", "U+1E7B", "U+1E7C", "U+1E7D",
     "U+1E7E", "U+1E7F", "U+1E80", "U+1E81", "U+1E82", "U+1E83", "U+1E84",
     "U+1E85", "U+1E86", "U+1E87", "U+1E88", "U+1E89", "U+1E8A", "U+1E8B",
     "U+1E8C", "U+1E8D", "U+1E8E", "U+1E8F", "U+1E90", "U+1E91", "U+1E92",
     "U+1E93", "U+1E94", "U+1E95", "U+1E96", "U+1E97", "U+1E98", "U+1E99",
     "U+1E9A", "U+1E9B", "U+1E9C", "U+1E9D", "U+1E9E", "U+1E9F", "U+1EA0",
     "U+1EA1", "U+1EA2", "U+1EA3", "U+1EA4", "U+1EA5", "U+1EA6", "U+1EA7",
     "U+1EA8", "U+1EA9", "U+1EAA", "U+1EAB", "U+1EAC", "U+1EAD", "U+1EAE",
     "U+1EAF", "U+1EB0", "U+1EB1", "U+1EB2", "U+1EB3", "U+1EB4", "U+1EB5",
     "U+1EB6", "U+1EB7", "U+1EB8", "U+1EB9", "U+1EBA", "U+1EBB", "U+1EBC",
     "U+1EBD", "U+1EBE", "U+1EBF", "U+1EC0", "U+1EC1", "U+1EC2", "U+1EC3",
     "U+1EC4", "U+1EC5", "U+1EC6", "U+1EC7", "U+1EC8", "U+1EC9", "U+1ECA",
     "U+1ECB", "U+1ECC", "U+1ECD", "U+1ECE", "U+1ECF", "U+1ED0", "U+1ED1",
     "U+1ED2", "U+1ED3", "U+1ED4", "U+1ED5", "U+1ED6", "U+1ED7", "U+1ED8",
     "U+1ED9", "U+1EDA", "U+1EDB", "U+1EDC", "U+1EDD", "U+1EDE", "U+1EDF",
     "U+1EE0", "U+1EE1", "U+1EE2", "U+1EE3", "U+1EE4", "U+1EE5", "U+1EE6",
     "U+1EE7", "U+1EE8", "U+1EE9", "U+1EEA", "U+1EEB", "U+1EEC", "U+1EED",
     "U+1EEE", "U+1EEF", "U+1EF0", "U+1EF1", "U+1EF2", "U+1EF3", "U+1EF4",
     "U+1EF5", "U+1EF6", "U+1EF7", "U+1EF8", "U+1EF9", "U+1EFA", "U+1EFB",
     "U+1EFC", "U+1EFD", "U+1EFE", "U+1EFF", "U+1F00", "U+1F01", "U+1F02",
     "U+1F03", "U+1F04", "U+1F05", "U+1F06", "U+1F07", "U+1F08", "U+1F09",
     "U+1F0A", "U+1F0B", "U+1F0C", "U+1F0D", "U+1F0E", "U+1F0F", "U+1F10",
     "U+1F11", "U+1F12", "U+1F13", "U+1F14", "U+1F15", "U+1F18", "U+1F19",
     "U+1F1A", "U+1F1B", "U+1F1C", "U+1F1D", "U+1F20", "U+1F21", "U+1F22",
     "U+1F23", "U+1F24", "U+1F25", "U+1F26", "U+1F27", "U+1F28", "U+1F29",
     "U+1F2A", "U+1F2B", "U+1F2C", "U+1F2D", "U+1F2E", "U+1F2F", "U+1F30",
     "U+1F31", "U+1F32", "U+1F33", "U+1F34", "U+1F35", "U+1F36", "U+1F37",
     "U+1F38", "U+1F39", "U+1F3A", "U+1F3B", "U+1F3C", "U+1F3D", "U+1F3E",
     "U+1F3F", "U+1F40", "U+1F41", "U+1F42", "U+1F43", "U+1F44", "U+1F45",
     "U+1F48", "U+1F49", "U+1F4A", "U+1F4B", "U+1F4C", "U+1F4D", "U+1F50",
     "U+1F51", "U+1F52", "U+1F53", "U+1F54", "U+1F55", "U+1F56", "U+1F57",
     "U+1F59", "U+1F5B", "U+1F5D", "U+1F5F", "U+1F60", "U+1F61", "U+1F62",
     "U+1F63", "U+1F64", "U+1F65", "U+1F66", "U+1F67", "U+1F68", "U+1F69",
     "U+1F6A", "U+1F6B", "U+1F6C", "U+1F6D", "U+1F6E", "U+1F6F", "U+1F70",
     "U+1F71", "U+1F72", "U+1F73", "U+1F74", "U+1F75", "U+1F76", "U+1F77",
     "U+1F78", "U+1F79", "U+1F7A", "U+1F7B", "U+1F7C", "U+1F7D", "U+1F80",
     "U+1F81", "U+1F82", "U+1F83", "U+1F84", "U+1F85", "U+1F86", "U+1F87",
     "U+1F88", "U+1F89", "U+1F8A", "U+1F8B", "U+1F8C", "U+1F8D", "U+1F8E",
     "U+1F8F", "U+1F90", "U+1F91", "U+1F92", "U+1F93", "U+1F94", "U+1F95",
     "U+1F96", "U+1F97", "U+1F98", "U+1F99", "U+1F9A", "U+1F9B", "U+1F9C",
     "U+1F9D", "U+1F9E", "U+1F9F", "U+1FA0", "U+1FA1", "U+1FA2", "U+1FA3",
     "U+1FA4", "U+1FA5", "U+1FA6", "U+1FA7", "U+1FA8", "U+1FA9", "U+1FAA",
     "U+1FAB", "U+1FAC", "U+1FAD", "U+1FAE", "U+1FAF", "U+1FB0", "U+1FB1",
     "U+1FB2", "U+1FB3", "U+1FB4", "U+1FB6", "U+1FB7", "U+1FB8", "U+1FB9",
     "U+1FBA", "U+1FBB", "U+1FBC", "U+1FBE", "U+1FC2", "U+1FC3", "U+1FC4",
     "U+1FC6", "U+1FC7", "U+1FC8", "U+1FC9", "U+1FCA", "U+1FCB", "U+1FCC",
     "U+1FD0", "U+1FD1", "U+1FD2", "U+1FD3", "U+1FD6", "U+1FD7", "U+1FD8",
     "U+1FD9", "U+1FDA", "U+1FDB", "U+1FE0", "U+1FE1", "U+1FE2", "U+1FE3",
     "U+1FE4", "U+1FE5", "U+1FE6", "U+1FE7", "U+1FE8", "U+1FE9", "U+1FEA",
     "U+1FEB", "U+1FEC", "U+1FF2", "U+1FF3", "U+1FF4", "U+1FF6", "U+1FF7",
     "U+1FF8", "U+1FF9", "U+1FFA", "U+1FFB", "U+1FFC", "U+2102", "U+2107",
     "U+210A", "U+210B", "U+210C", "U+210D", "U+210E", "U+210F", "U+2110",
     "U+2111", "U+2112", "U+2113", "U+2115", "U+2119", "U+211A", "U+211B",
     "U+211C", "U+211D", "U+2124", "U+2126", "U+2128", "U+212A", "U+212B",
     "U+212C", "U+212D", "U+212F", "U+2130", "U+2131", "U+2132", "U+2133",
     "U+2134", "U+2139", "U+213C", "U+213D", "U+213E", "U+213F", "U+2145",
     "U+2146", "U+2147", "U+2148", "U+2149", "U+214E", "U+2160", "U+2161",
     "U+2162", "U+2163", "U+2164", "U+2165", "U+2166", "U+2167", "U+2168",
     "U+2169", "U+216A", "U+216B", "U+216C", "U+216D", "U+216E", "U+216F",
     "U+2170", "U+2171", "U+2172", "U+2173", "U+2174", "U+2175", "U+2176",
     "U+2177", "U+2178", "U+2179", "U+217A", "U+217B", "U+217C", "U+217D",
     "U+217E", "U+217F", "U+2183", "U+2184", "U+24B6", "U+24B7", "U+24B8",
     "U+24B9", "U+24BA", "U+24BB", "U+24BC", "U+24BD", "U+24BE", "U+24BF",
     "U+24C0", "U+24C1", "U+24C2", "U+24C3", "U+24C4", "U+24C5", "U+24C6",
     "U+24C7", "U+24C8", "U+24C9", "U+24CA", "U+24CB", "U+24CC", "U+24CD",
     "U+24CE", "U+24CF", "U+24D0", "U+24D1", "U+24D2", "U+24D3", "U+24D4",
     "U+24D5", "U+24D6", "U+24D7", "U+24D8", "U+24D9", "U+24DA", "U+24DB",
     "U+24DC", "U+24DD", "U+24DE", "U+24DF", "U+24E0", "U+24E1", "U+24E2",
     "U+24E3", "U+24E4", "U+24E5", "U+24E6", "U+24E7", "U+24E8", "U+24E9",
     "U+2C00", "U+2C01", "U+2C02", "U+2C03", "U+2C04", "U+2C05", "U+2C06",
     "U+2C07", "U+2C08", "U+2C09", "U+2C0A", "U+2C0B", "U+2C0C", "U+2C0D",
     "U+2C0E", "U+2C0F", "U+2C10", "U+2C11", "U+2C12", "U+2C13", "U+2C14",
     "U+2C15", "U+2C16", "U+2C17", "U+2C18", "U+2C19", "U+2C1A", "U+2C1B",
     "U+2C1C", "U+2C1D", "U+2C1E", "U+2C1F", "U+2C20", "U+2C21", "U+2C22",
     "U+2C23", "U+2C24", "U+2C25", "U+2C26", "U+2C27", "U+2C28", "U+2C29",
     "U+2C2A", "U+2C2B", "U+2C2C", "U+2C2D", "U+2C2E", "U+2C2F", "U+2C30",
     "U+2C31", "U+2C32", "U+2C33", "U+2C34", "U+2C35", "U+2C36", "U+2C37",
     "U+2C38", "U+2C39", "U+2C3A", "U+2C3B", "U+2C3C", "U+2C3D", "U+2C3E",
     "U+2C3F", "U+2C40", "U+2C41", "U+2C42", "U+2C43", "U+2C44", "U+2C45",
     "U+2C46", "U+2C47", "U+2C48", "U+2C49", "U+2C4A", "U+2C4B", "U+2C4C",
     "U+2C4D", "U+2C4E", "U+2C4F", "U+2C50", "U+2C51", "U+2C52", "U+2C53",
     "U+2C54", "U+2C55", "U+2C56", "U+2C57", "U+2C58", "U+2C59", "U+2C5A",
     "U+2C5B", "U+2C5C", "U+2C5D", "U+2C5E", "U+2C5F", "U+2C60", "U+2C61",
     "U+2C62", "U+2C63", "U+2C64", "U+2C65", "U+2C66", "U+2C67", "U+2C68",
     "U+2C69", "U+2C6A", "U+2C6B", "U+2C6C", "U+2C6D", "U+2C6E", "U+2C6F",
     "U+2C70", "U+2C71", "U+2C72", "U+2C73", "U+2C74", "U+2C75", "U+2C76",
     "U+2C77", "U+2C78", "U+2C79", "U+2C7A", "U+2C7B", "U+2C7E", "U+2C7F",
     "U+2C80", "U+2C81", "U+2C82", "U+2C83", "U+2C84", "U+2C85", "U+2C86",
     "U+2C87", "U+2C88", "U+2C89", "U+2C8A", "U+2C8B", "U+2C8C", "U+2C8D",
     "U+2C8E", "U+2C8F", "U+2C90", "U+2C91", "U+2C92", "U+2C93", "U+2C94",
     "U+2C95", "U+2C96", "U+2C97", "U+2C98", "U+2C99", "U+2C9A", "U+2C9B",
     "U+2C9C", "U+2C9D", "U+2C9E", "U+2C9F", "U+2CA0", "U+2CA1", "U+2CA2",
     "U+2CA3", "U+2CA4", "U+2CA5", "U+2CA6", "U+2CA7", "U+2CA8", "U+2CA9",
     "U+2CAA", "U+2CAB", "U+2CAC", "U+2CAD", "U+2CAE", "U+2CAF", "U+2CB0",
     "U+2CB1", "U+2CB2", "U+2CB3", "U+2CB4", "U+2CB5", "U+2CB6", "U+2CB7",
     "U+2CB8", "U+2CB9", "U+2CBA", "U+2CBB", "U+2CBC", "U+2CBD", "U+2CBE",
     "U+2CBF", "U+2CC0", "U+2CC1", "U+2CC2", "U+2CC3", "U+2CC4", "U+2CC5",
     "U+2CC6", "U+2CC7", "U+2CC8", "U+2CC9", "U+2CCA", "U+2CCB", "U+2CCC",
     "U+2CCD", "U+2CCE", "U+2CCF", "U+2CD0", "U+2CD1", "U+2CD2", "U+2CD3",
     "U+2CD4", "U+2CD5", "U+2CD6", "U+2CD7", "U+2CD8", "U+2CD9", "U+2CDA",
     "U+2CDB", "U+2CDC", "U+2CDD", "U+2CDE", "U+2CDF", "U+2CE0", "U+2CE1",
     "U+2CE2", "U+2CE3", "U+2CE4", "U+2CEB", "U+2CEC", "U+2CED", "U+2CEE",
     "U+2CF2", "U+2CF3", "U+2D00", "U+2D01", "U+2D02", "U+2D03", "U+2D04",
     "U+2D05", "U+2D06", "U+2D07", "U+2D08", "U+2D09", "U+2D0A", "U+2D0B",
     "U+2D0C", "U+2D0D", "U+2D0E", "U+2D0F", "U+2D10", "U+2D11", "U+2D12",
     "U+2D13", "U+2D14", "U+2D15", "U+2D16", "U+2D17", "U+2D18", "U+2D19",
     "U+2D1A", "U+2D1B", "U+2D1C", "U+2D1D", "U+2D1E", "U+2D1F", "U+2D20",
     "U+2D21", "U+2D22", "U+2D23", "U+2D24", "U+2D25", "U+2D27", "U+2D2D",
     "U+A640", "U+A641", "U+A642", "U+A643", "U+A644", "U+A645", "U+A646",
     "U+A647", "U+A648", "U+A649", "U+A64A", "U+A64B", "U+A64C", "U+A64D",
     "U+A64E", "U+A64F", "U+A650", "U+A651", "U+A652", "U+A653", "U+A654",
     "U+A655", "U+A656", "U+A657", "U+A658", "U+A659", "U+A65A", "U+A65B",
     "U+A65C", "U+A65D", "U+A65E", "U+A65F", "U+A660", "U+A661", "U+A662",
     "U+A663", "U+A664", "U+A665", "U+A666", "U+A667", "U+A668", "U+A669",
     "U+A66A", "U+A66B", "U+A66C", "U+A66D", "U+A680", "U+A681", "U+A682",
     "U+A683", "U+A684", "U+A685", "U+A686", "U+A687", "U+A688", "U+A689",
     "U+A68A", "U+A68B", "U+A68C", "U+A68D", "U+A68E", "U+A68F", "U+A690",
     "U+A691", "U+A692", "U+A693", "U+A694", "U+A695", "U+A696", "U+A697",
     "U+A698", "U+A699", "U+A69A", "U+A69B", "U+A722", "U+A723", "U+A724",
     "U+A725", "U+A726", "U+A727", "U+A728", "U+A729", "U+A72A", "U+A72B",
     "U+A72C", "U+A72D", "U+A72E", "U+A72F", "U+A730", "U+A731", "U+A732",
     "U+A733", "U+A734", "U+A735", "U+A736", "U+A737", "U+A738", "U+A739",
     "U+A73A", "U+A73B", "U+A73C", "U+A73D", "U+A73E", "U+A73F", "U+A740",
     "U+A741", "U+A742", "U+A743", "U+A744", "U+A745", "U+A746", "U+A747",
     "U+A748", "U+A749", "U+A74A", "U+A74B", "U+A74C", "U+A74D", "U+A74E",
     "U+A74F", "U+A750", "U+A751", "U+A752", "U+A753", "U+A754", "U+A755",
     "U+A756", "U+A757", "U+A758", "U+A759", "U+A75A", "U+A75B", "U+A75C",
     "U+A75D", "U+A75E", "U+A75F", "U+A760", "U+A761", "U+A762", "U+A763",
     "U+A764", "U+A765", "U+A766", "U+A767", "U+A768", "U+A769", "U+A76A",
     "U+A76B", "U+A76C", "U+A76D", "U+A76E", "U+A76F", "U+A771", "U+A772",
     "U+A773", "U+A774", "U+A775", "U+A776", "U+A777", "U+A778", "U+A779",
     "U+A77A", "U+A77B", "U+A77C", "U+A77D", "U+A77E", "U+A77F", "U+A780",
     "U+A781", "U+A782", "U+A783", "U+A784", "U+A785", "U+A786", "U+A787",
     "U+A78B", "U+A78C", "U+A78D", "U+A78E", "U+A790", "U+A791", "U+A792",
     "U+A793", "U+A794", "U+A795", "U+A796", "U+A797", "U+A798", "U+A799",
     "U+A79A", "U+A79B", "U+A79C", "U+A79D", "U+A79E", "U+A79F", "U+A7A0",
     "U+A7A1", "U+A7A2", "U+A7A3", "U+A7A4", "U+A7A5", "U+A7A6", "U+A7A7",
     "U+A7A8", "U+A7A9", "U+A7AA", "U+A7AB", "U+A7AC", "U+A7AD", "U+A7AE",
     "U+A7AF", "U+A7B0", "U+A7B1", "U+A7B2", "U+A7B3", "U+A7B4", "U+A7B5",
     "U+A7B6", "U+A7B7", "U+A7B8", "U+A7B9", "U+A7BA", "U+A7BB", "U+A7BC",
     "U+A7BD", "U+A7BE", "U+A7BF", "U+A7C0", "U+A7C1", "U+A7C2", "U+A7C3",
     "U+A7C4", "U+A7C5", "U+A7C6", "U+A7C7", "U+A7C8", "U+A7C9", "U+A7CA",
     "U+A7CB", "U+A7CC", "U+A7CD", "U+A7CE", "U+A7CF", "U+A7D0", "U+A7D1",
     "U+A7D2", "U+A7D3", "U+A7D4", "U+A7D5", "U+A7D6", "U+A7D7", "U+A7D8",
     "U+A7D9", "U+A7DA", "U+A7DB", "U+A7DC", "U+A7F5", "U+A7F6", "U+A7FA",
     "U+AB30", "U+AB31", "U+AB32", "U+AB33", "U+AB34", "U+AB35", "U+AB36",
     "U+AB37", "U+AB38", "U+AB39", "U+AB3A", "U+AB3B", "U+AB3C", "U+AB3D",
     "U+AB3E", "U+AB3F", "U+AB40", "U+AB41", "U+AB42", "U+AB43", "U+AB44",
     "U+AB45", "U+AB46", "U+AB47", "U+AB48", "U+AB49", "U+AB4A", "U+AB4B",
     "U+AB4C", "U+AB4D", "U+AB4E", "U+AB4F", "U+AB50", "U+AB51", "U+AB52",
     "U+AB53", "U+AB54", "U+AB55", "U+AB56", "U+AB57", "U+AB58", "U+AB59",
     "U+AB5A", "U+AB60", "U+AB61", "U+AB62", "U+AB63", "U+AB64", "U+AB65",
     "U+AB66", "U+AB67", "U+AB68", "U+AB70", "U+AB71", "U+AB72", "U+AB73",
     "U+AB74", "U+AB75", "U+AB76", "U+AB77", "U+AB78", "U+AB79", "U+AB7A",
     "U+AB7B", "U+AB7C", "U+AB7D", "U+AB7E", "U+AB7F", "U+AB80", "U+AB81",
     "U+AB82", "U+AB83", "U+AB84", "U+AB85", "U+AB86", "U+AB87", "U+AB88",
     "U+AB89", "U+AB8A", "U+AB8B", "U+AB8C", "U+AB8D", "U+AB8E", "U+AB8F",
     "U+AB90", "U+AB91", "U+AB92", "U+AB93", "U+AB94", "U+AB95", "U+AB96",
     "U+AB97", "U+AB98", "U+AB99", "U+AB9A", "U+AB9B", "U+AB9C", "U+AB9D",
     "U+AB9E", "U+AB9F", "U+ABA0", "U+ABA1", "U+ABA2", "U+ABA3", "U+ABA4",
     "U+ABA5", "U+ABA6", "U+ABA7", "U+ABA8", "U+ABA9", "U+ABAA", "U+ABAB",
     "U+ABAC", "U+ABAD", "U+ABAE", "U+ABAF", "U+ABB0", "U+ABB1", "U+ABB2",
     "U+ABB3", "U+ABB4", "U+ABB5", "U+ABB6", "U+ABB7", "U+ABB8", "U+ABB9",
     "U+ABBA", "U+ABBB", "U+ABBC", "U+ABBD", "U+ABBE", "U+ABBF", "U+FB00",
     "U+FB01", "U+FB02", "U+FB03", "U+FB04", "U+FB05", "U+FB06", "U+FB13",
     "U+FB14", "U+FB15", "U+FB16", "U+FB17", "U+FF21", "U+FF22", "U+FF23",
     "U+FF24", "U+FF25", "U+FF26", "U+FF27", "U+FF28", "U+FF29", "U+FF2A",
     "U+FF2B", "U+FF2C", "U+FF2D", "U+FF2E", "U+FF2F", "U+FF30", "U+FF31",
     "U+FF32", "U+FF33", "U+FF34", "U+FF35", "U+FF36", "U+FF37", "U+FF38",
     "U+FF39", "U+FF3A", "U+FF41", "U+FF42", "U+FF43", "U+FF44", "U+FF45",
     "U+FF46", "U+FF47", "U+FF48", "U+FF49", "U+FF4A", "U+FF4B", "U+FF4C",
     "U+FF4D", "U+FF4E", "U+FF4F", "U+FF50", "U+FF51", "U+FF52", "U+FF53",
     "U+FF54", "U+FF55", "U+FF56", "U+FF57", "U+FF58", "U+FF59", "U+FF5A"}

\* the characters with the property Case_Ignorable
CaseIgnorable ==
    {"'", ".", ":", "^", "U+0060", "U+00A8", "U+00AD", "U+00AF", "U+00B4",
     "U+00B7", "U+00B8", "U+02B0", "U+02B1", "U+02B2", "U+02B3", "U+02B4",
     "U+02B5", "U+02B6", "U+02B7", "U+02B8", "U+02B9", "U+02BA", "U+02BB",
     "U+02BC", "U+02BD", "U+02BE", "U+02BF", "U+02C0", "U+02C1", "U+02C2",
     "U+02C3", "U+02C4", "U+02C5", "U+02C6", "U+02C7", "U+02C8", "U+02C9",
     "U+02CA", "U+02CB", "U+02CC", "U+02CD", "U+02CE", "U+02CF", "U+02D0",
     "U+02D1", "U+02D2", "U+02D3", "U+02D4", "U+02D5", "U+02D6", "U+02D7",
     "U+02D8", "U+02D9", "U+02DA", "U+02DB", "U+02DC", "U+02DD", "U+02DE",
     "U+02DF", "U+02E0", "U+02E1", "U+02E2", "U+02E3", "U+02E4", "U+02E5",
     "U+02E6", "U+02E7", "U+02E8", "U+02E9", "U+02EA", "U+02EB", "U+02EC",
     "U+02ED", "U+02EE", "U+02EF", "U+02F0", "U+02F1", "U+02F2", "U+02F3",
     "U+02F4", "U+02F5", "U+02F6", "U+02F7", "U+02F8", "U+02F9", "U+02FA",
     "U+02FB", "U+02FC", "U+02FD", "U+02FE", "U+02FF", "U+0300", "U+0301",
     "U+0302", "U+0303", "U+0304", "U+0305", "U+0306", "U+0307", "U+0308",
     "U+0309", "U+030A", "U+030B", "U+030C", "U+030D", "U+030E", "U+030F",
     "U+0310", "U+0311", "U+0312", "U+0313", "U+0314", "U+0315", "U+0316",
     "U+0317", "U+0318", "U+0319", "U+031A", "U+031B", "U+031C", "U+031D",
     "U+031E", "U+031F", "U+0320", "U+0321", "U+0322", "U+0323", "U+0324",
     "U+0325", "U+0326", "U+0327", "U+0328", "U+0329", "U+032A", "U+032B",
     "U+032C", "U+032D", "U+032E", "U+032F", "U+0330", "U+0331", "U+0332",
     "U+0333", "U+0334", "U+0335", "U+0336", "U+0337", "U+0338", "U+0339",
     "U+033A", "U+033B", "U+033C", "U+033D", "U+033E", "U+033F", "U+0340",
     "U+0341", "U+0342", "U+0343", "U+0344", "U+0345", "U+0346", "U+0347",
     "U+0348", "U+0349", "U+034A", "U+034B", "U+034C", "U+034D", "U+034E",
     "U+034F", "U+0350", "U+0351", "U+0352", "U+0353", "U+0354", "U+0355",
     "U+0356", "U+0357", "U+0358", "U+0359", "U+035A", "U+035B", "U+035C",
     "U+035D", "U+035E", "U+035F", "U+0360", "U+0361", "U+0362", "U+0363",
     "U+0364", "U+0365", "U+0366", "U+0367", "U+0368", "U+0369", "U+036A",
     "U+036B", "U+036C", "U+036D", "U+036E", "U+036F", "U+0374", "U+0375",
     "U+037A", "U+0384", "U+0385", "U+0387", "U+0483", "U+0484", "U+0485",
     "U+0486", "U+0487", "U+0488", "U+0489", "U+0559", "U+055F", "U+0591",
     "U+0592", "U+0593", "U+0594", "U+0595", "U+0596", "U+0597", "U+0598",
     "U+0599", "U+059A", "U+059B", "U+059C", "U+059D", "U+059E", "U+059F",
     "U+05A0", "U+05A1", "U+05A2", "U+05A3", "U+05A4", "U+05A5", "U+05A6",
     "U+05A7", "U+05A8", "U+05A9", "U+05AA", "U+05AB", "U+05AC", "U+05AD",
     "U+05AE", "U+05AF", "U+05B0", "U+05B1", "U+05B2", "U+05B3", "U+05B4",
     "U+05B5", "U+05B6", "U+05B7", "U+05B8", "U+05B9", "U+05BA", "U+05BB",
     "U+05BC", "U+05BD", "U+05BF", "U+05C1", "U+05C2", "U+05C4", "U+05C5",
     "U+05C7", "U+05F4", "U+0600", "U+0601", "U+0602", "U+0603", "U+0604",
     "U+0605", "U+0610", "U+0611", "U+0612", "U+0613", "U+0614", "U+0615",
     "U+0616", "U+0617", "U+0618", "U+0619", "U+061A", "U+061C", "U+0640",
     "U+064B", "U+064C", "U+064D", "U+064E", "U+064F", "U+0650", "U+0651",
     "U+0652", "U+0653", "U+0654", "U+0655", "U+0656", "U+0657", "U+0658",
     "U+0659", "U+065A", "U+065B", "U+065C", "U+065D", "U+065E", "U+065F",
     "U+0670", "U+06D6", "U+06D7", "U+06D8", "U+06D9", "U+06DA", "U+06DB",
     "U+06DC", "U+06DD", "U+06DF", "U+06E0", "U+06E1", "U+06E2", "U+06E3",
     "U+06E4", "U+06E5", "U+06E6", "U+06E7", "U+06E8", "U+06EA", "U+06EB",
     "U+06EC", "U+06ED", "U+070F", "U+0711", "U+0730", "U+0731", "U+0732",
     "U+0733", "U+0734", "U+0735", "U+0736", "U+0737", "U+0738", "U+0739",
     "U+073A", "U+073B", "U+073C", "U+073D", "U+073E", "U+073F", "U+0740",
     "U+0741", "U+0742", "U+0743", "U+0744", "U+0745", "U+0746", "U+0747",
     "U+0748", "U+0749", "U+074A", "U+07A6", "U+07A7", "U+07A8", "U+07A9",
     "U+07AA", "U+07AB", "U+07AC", "U+07AD", "U+07AE", "U+07AF", "U+07B0",
     "U+07EB", "U+07EC", "U+07ED", "U+07EE", "U+07EF", "U+07F0", "U+07F1",
     "U+07F2", "U+07F3", "U+07F4", "U+07F5", "U+07FA", "U+07FD", "U+0816",
     "U+0817", "U+0818", "U+0819", "U+081A", "U+081B", "U+081C", "U+081D",
     "U+081E", "U+081F", "U+0820", "U+0821", "U+0822", "U+0823", "U+0824",
     "U+0825", "U+0826", "U+0827", "U+0828", "U+0829", "U+082A", "U+082B",
     "U+082C", "U+082D", "U+0859", "U+085A", "U+085B", "U+0888", "U+0890",
     "U+0891", "U+0897", "U+0898", "U+0899", "U+089A", "U+089B", "U+089C",
     "U+089D", "U+089E", "U+089F", "U+08C9", "U+08CA", "U+08CB", "U+08CC",
     "U+08CD", "U+08CE", "U+08CF", "U+08D0", "U+08D1", "U+08D2", "U+08D3",
     "U+08D4", "U+08D5", "U+08D6", "U+08D7", "U+08D8", "U+08D9", "U+08DA",
     "U+08DB", "U+08DC", "U+08DD", "U+08DE", "U+08DF", "U+08E0", "U+08E1",
     "U+08E2", "U+08E3", "U+08E4", "U+08E5", "U+08E6", "U+08E7", "U+08E8",
     "U+08E9", "U+08EA", "U+08EB", "U+08EC", "U+08ED", "U+08EE", "U+08EF",
     "U+08F0", "U+08F1", "U+08F2", "U+08F3", "U+08F4", "U+08F5", "U+08F6",
     "U+08F7", "U+08F8", "U+08F9", "U+08FA", "U+08FB", "U+08FC", "U+08FD",
     "U+08FE", "U+08FF", "U+0900", "U+0901", "U+0902", "U+093A", "U+093C",
     "U+0941", "U+0942", "U+0943", "U+0944", "U+0945", "U+0946", "U+0947",
     "U+0948", "U+094D", "U+0951", "U+0952", "U+0953", "U+0954", "U+0955",
     "U+0956", "U+0957", "U+0962", "U+0963", "U+0971", "U+0981", "U+09BC",
     "U+09C1", "U+09C2", "U+09C3", "U+09C4", "U+09CD", "U+09E2", "U+09E3",
     "U+09FE", "U+0A01", "U+0A02", "U+0A3C", "U+0A41", "U+0A42", "U+0A47",
     "U+0A48", "U+0A4B", "U+0A4C", "U+0A4D", "U+0A51", "U+0A70", "U+0A71",
     "U+0A75", "U+0A81", "U+0A82", "U+0ABC", "U+0AC1", "U+0AC2", "U+0AC3",
     "U+0AC4", "U+0AC5", "U+0AC7", "U+0AC8", "U+0ACD", "U+0AE2", "U+0AE3",
     "U+0AFA", "U+0AFB", "U+0AFC", "U+0AFD", "U+0AFE", "U+0AFF", "U+0B01",
     "U+0B3C", "U+0B3F", "U+0B41", "U+0B42", "U+0B43", "U+0B44", "U+0B4D",
     "U+0B55", "U+0B56", "U+0B62", "U+0B63", "U+0B82", "U+0BC0", "U+0BCD",
     "U+0C00", "U+0C04", "U+0C3C", "U+0C3E", "U+0C3F", "U+0C40", "U+0C46",
     "U+0C47", "U+0C48", "U+0C4A", "U+0C4B", "U+0C4C", "U+0C4D", "U+0C55",
     "U+0C56", "U+0C62", "U+0C63", "U+0C81", "U+0CBC", "U+0CBF", "U+0CC6",
     "U+0CCC", "U+0CCD", "U+0CE2", "U+0CE3", "U+0D00", "U+0D01", "U+0D3B",
     "U+0D3C", "U+0D41", "U+0D42", "U+0D43", "U+0D44", "U+0D4D", "U+0D62",
     "U+0D63", "U+0D81", "U+0DCA", "U+0DD2", "U+0DD3", "U+0DD4", "U+0DD6",
     "U+0E31", "U+0E34", "U+0E35", "U+0E36", "U+0E37", "U+0E38", "U+0E39",
     "U+0E3A", "U+0E46", "U+0E47", "U+0E48", "U+0E49", "U+0E4A", "U+0E4B",
     "U+0E4C", "U+0E4D", "U+0E4E", "U+0EB1", "U+0EB4", "U+0EB5", "U+0EB6",
     "U+0EB7", "U+0EB8", "U+0EB9", "U+0EBA", "U+0EBB", "U+0EBC", "U+0EC6",
     "U+0EC8", "U+0EC9", "U+0ECA", "U+0ECB", "U+0ECC", "U+0ECD", "U+0ECE",
     "U+0F18", "U+0F19", "U+0F35", "U+0F37", "U+0F39", "U+0F71", "U+0F72",
     "U+0F73", "U+0F74", "U+0F75", "U+0F76", "U+0F77", "U+0F78", "U+0F79",
     "U+0F7A", "U+0F7B", "U+0F7C", "U+0F7D", "U+0F7E", "U+0F80", "U+0F81",
     "U+0F82", "U+0F83", "U+0F84", "U+0F86", "U+0F87", "U+0F8D", "U+0F8E",
     "U+0F8F", "U+0F90", "U+0F91", "U+0F92", "U+0F93", "U+0F94", "U+0F95",
     "U+0F96", "U+0F97", "U+0F99", "U+0F9A", "U+0F9B", "U+0F9C", "U+0F9D",
     "U+0F9E", "U+0F9F", "U+0FA0", "U+0FA1", "U+0FA2", "U+0FA3", "U+0FA4",
     "U+0FA5", "U+0FA6", "U+0FA7", "U+0FA8", "U+0FA9", "U+0FAA", "U+0FAB",
     "U+0FAC", "U+0FAD", "U+0FAE", "U+0FAF", "U+0FB0", "U+0FB1", "U+0FB2",
     "U+0FB3", "U+0FB4", "U+0FB5", "U+0FB6", "U+0FB7", "U+0FB8", "U+0FB9",
     "U+0FBA", "U+0FBB", "U+0FBC", "U+0FC6", "U+102D", "U+102E", "U+102F",
     "U+1030", "U+1032", "U+1033", "U+1034", "U+1035", "U+1036", "U+1037",
     "U+1039", "U+103A", "U+103D", "U+103E", "U+1058", "U+1059", "U+105E",
     "U+105F", "U+1060", "U+1071", "U+1072", "U+1073", "U+1074", "U+1082",
     "U+1085", "U+1086", "U+108D", "U+109D", "U+10FC", "U+135D", "U+135E",
     "U+135F", "U+1712", "U+1713", "U+1714", "U+1732", "U+1733", "U+1752",
     "U+1753", "U+1772", "U+1773", "U+17B4", "U+17B5", "U+17B7", "U+17B8",
     "U+17B9", "U+17BA", "U+17BB", "U+17BC", "U+17BD", "U+17C6", "U+17C9",
     "U+17CA", "U+17CB", "U+17CC", "U+17CD", "U+17CE", "U+17CF", "U+17D0",
     "U+17D1", "U+17D2", "U+17D3", "U+17D7", "U+17DD", "U+180B", "U+180C",
     "U+180D", "U+180E", "U+180F", "U+1843", "U+1885", "U+1886", "U+18A9",
     "U+1920", "U+1921", "U+1922", "U+1927", "U+1928", "U+1932", "U+1939",
     "U+193A", "U+193B", "U+1A17", "U+1A18", "U+1A1B", "U+1A56", "U+1A58",
     "U+1A59", "U+1A5A", "U+1A5B", "U+1A5C", "U+1A5D", "U+1A5E", "U+1A60",
     "U+1A62", "U+1A65", "U+1A66", "U+1A67", "U+1A68", "U+1A69", "U+1A6A",
     "U+1A6B", "U+1A6C", "U+1A73", "U+1A74", "U+1A75", "U+1A76", "U+1A77",
     "U+1A78", "U+1A79", "U+1A7A", "U+1A7B", "U+1A7C", "U+1A7F", "U+1AA7",
     "U+1AB0", "U+1AB1", "U+1AB2", "U+1AB3", "U+1AB4", "U+1AB5", "U+1AB6",
     "U+1AB7", "U+1AB8", "U+1AB9", "U+1ABA", "U+1ABB", "U+1ABC", "U+1ABD",
     "U+1ABE", "U+1ABF", "U+1AC0", "U+1AC1", "U+1AC2", "U+1AC3", "U+1AC4",
     "U+1AC5", "U+1AC6", "U+1AC7", "U+1AC8", "U+1AC9", "U+1ACA", "U+1ACB",
     "U+1ACC", "U+1ACD", "U+1ACE", "U+1ACF", "U+1AD0", "U+1AD1", "U+1AD2",
     "U+1AD3", "U+1AD4", "U+1AD5", "U+1AD6", "U+1AD7", "U+1AD8", "U+1AD9",
     "U+1ADA", "U+1ADB", "U+1ADC", "U+1ADD", "U+1AE0", "U+1AE1", "U+1AE2",
     "U+1AE3", "U+1AE4", "U+1AE5", "U+1AE6", "U+1AE7", "U+1AE8", "U+1AE9",
     "U+1AEA", "U+1AEB", "U+1B00", "U+1B01", "U+1B02", "U+1B03", "U+1B34",
     "U+1B36", "U+1B37", "U+1B38", "U+1B39", "U+1B3A", "U+1B3C", "U+1B42",
     "U+1B6B", "U+1B6C", "U+1B6D", "U+1B6E", "U+1B6F", "U+1B70", "U+1B71",
     "U+1B72", "U+1B73", "U+1B80", "U+1B81", "U+1BA2", "U+1BA3", "U+1BA4",
     "U+1BA5", "U+1BA8", "U+1BA9", "U+1BAB", "U+1BAC", "U+1BAD", "U+1BE6",
     "U+1BE8", "U+1BE9", "U+1BED", "U+1BEF", "U+1BF0", "U+1BF1", "U+1C2C",
     "U+1C2D", "U+1C2E", "U+1C2F", "U+1C30", "U+1C31", "U+1C32", "U+1C33",
     "U+1C36", "U+1C37", "U+1C78", "U+1C79", "U+1C7A", "U+1C7B", "U+1C7C",
     "U+1C7D", "U+1CD0", "U+1CD1", "U+1CD2", "U+1CD4", "U+1CD5", "U+1CD6",
     "U+1CD7", "U+1CD8", "U+1CD9", "U+1CDA", "U+1CDB", "U+1CDC", "U+1CDD",
     "U+1CDE", "U+1CDF", "U+1CE0", "U+1CE2", "U+1CE3", "U+1CE4", "U+1CE5",
     "U+1CE6", "U+1CE7", "U+1CE8", "U+1CED", "U+1CF4", "U+1CF8", "U+1CF9",
     "U+1D2C", "U+1D2D", "U+1D2E", "U+1D2F", "U+1D30", "U+1D31", "U+1D32",
     "U+1D33", "U+1D34", "U+1D35", "U+1D36", "U+1D37", "U+1D38", "U+1D39",
     "U+1D3A", "U+1D3B", "U+1D3C", "U+1D3D", "U+1D3E", "U+1D3F", "U+1D40",
     "U+1D41", "U+1D42", "U+1D43", "U+1D44", "U+1D45", "U+1D46", "U+1D47",
     "U+1D48", "U+1D49", "U+1D4A", "U+1D4B", "U+1D4C", "U+1D4D", "U+1D4E",
     "U+1D4F", "U+1D50", "U+1D51", "U+1D52", "U+1D53", "U+1D54", "U+1D55",
     "U+1D56", "U+1D57", "U+1D58", "U+1D59", "U+1D5A", "U+1D5B", "U+1D5C",
     "U+1D5D", "U+1D5E", "U+1D5F", "U+1D60", "U+1D61", "U+1D62", "U+1D63",
     "U+1D64", "U+1D65", "U+1D66", "U+1D67", "U+1D68", "U+1D69", "U+1D6A",
     "U+1D78", "U+1D9B", "U+1D9C", "U+1D9D", "U+1D9E", "U+1D9F", "U+1DA0",
     "U+1DA1", "U+1DA2", "U+1DA3", "U+1DA4", "U+1DA5", "U+1DA6", "U+1DA7",
     "U+1DA8", "U+1DA9", "U+1DAA", "U+1DAB", "U+1DAC", "U+1DAD", "U+1DAE",
     "U+1DAF", "U+1DB0", "U+1DB1", "U+1DB2", "U+1DB3", "U+1DB4", "U+1DB5",
     "U+1DB6", "U+1DB7", "U+1DB8", "U+1DB9", "U+1DBA", "U+1DBB", "U+1DBC",
     "U+1DBD", "U+1DBE", "U+1DBF", "U+1DC0", "U+1DC1", "U+1DC2", "U+1DC3",
     "U+1DC4", "U+1DC5", "U+1DC6", "U+1DC7", "U+1DC8", "U+1DC9", "U+1DCA",
     "U+1DCB", "U+1DCC", "U+1DCD", "U+1DCE", "U+1DCF", "U+1DD0", "U+1DD1",
     "U+1DD2", "U+1DD3", "U+1DD4", "U+1DD5", "U+1DD6", "U+1DD7", "U+1DD8",
     "U+1DD9", "U+1DDA", "U+1DDB", "U+1DDC", "U+1DDD", "U+1DDE", "U+1DDF",
     "U+1DE0", "U+1DE1", "U+1DE2", "U+1DE3", "U+1DE4", "U+1DE5", "U+1DE6",
     "U+1DE7", "U+1DE8", "U+1DE9", "U+1DEA", "U+1DEB", "U+1DEC", "U+1DED",
     "U+1DEE", "U+1DEF", "U+1DF0", "U+1DF1", "U+1DF2", "U+1DF3", "U+1DF4",
     "U+1DF5", "U+1DF6", "U+1DF7", "U+1DF8", "U+1DF9", "U+1DFA", "U+1DFB",
     "U+1DFC", "U+1DFD", "U+1DFE", "U+1DFF", "U+1FBD", "U+1FBF", "U+1FC0",
     "U+1FC1", "U+1FCD", "U+1FCE", "U+1FCF", "U+1FDD", "U+1FDE", "U+1FDF",
     "U+1FED", "U+1FEE", "U+1FEF", "U+1FFD", "U+1FFE", "U+200B", "U+200C",
     "U+200D", "U+200E", "U+200F", "U+2018", "U+2019", "U+2024", "U+2027",
     "U+202A", "U+202B", "U+202C", "U+202D", "U+202E", "U+2060", "U+2061",
     "U+2062", "U+2063", "U+2064", "U+2066", "U+2067", "U+2068", "U+2069",
     "U+206A", "U+206B", "U+206C", "U+206D", "U+206E", "U+206F", "U+2071",
     "U+207F", "U+2090", "U+2091", "U+2092", "U+2093", "U+2094", "U+2095",
     "U+2096", "U+2097", "U+2098", "U+2099", "U+209A", "U+209B", "U+209C",
     "U+20D0", "U+20D1", "U+20D2", "U+20D3", "U+20D4", "U+20D5", "U+20D6",
     "U+20D7", "U+20D8", "U+20D9", "U+20DA", "U+20DB", "U+20DC", "U+20DD",
     "U+20DE", "U+20DF", "U+20E0", "U+20E1", "U+20E2", "U+20E3", "U+20E4",
     "U+20E5", "U+20E6", "U+20E7", "U+20E8", "U+20E9", "U+20EA", "U+20EB",
     "U+20EC", "U+20ED", "U+20EE", "U+20EF", "U+20F0", "U+2C7C", "U+2C7D",
     "U+2CEF", "U+2CF0", "U+2CF1", "U+2D6F", "U+2D7F", "U+2DE0", "U+2DE1",
     "U+2DE2", "U+2DE3", "U+2DE4", "U+2DE5", "U+2DE6", "U+2DE7", "U+2DE8",
     "U+2DE9", "U+2DEA", "U+2DEB", "U+2DEC", "U+2DED", "U+2DEE", "U+2DEF",
     "U+2DF0", "U+2DF1", "U+2DF2", "U+2DF3", "U+2DF4", "U+2DF5", "U+2DF6",
     "U+2DF7", "U+2DF8", "U+2DF9", "U+2DFA", "U+2DFB", "U+2DFC", "U+2DFD",
     "U+2DFE", "U+2DFF", "U+2E2F", "U+3005", "U+302A", "U+302B", "U+302C",
     "U+302D", "U+3031", "U+3032", "U+3033", "U+3034", "U+3035", "U+303B",
     "U+3099", "U+309A", "U+309B", "U+309C", "U+309D", "U+309E", "U+30FC",
     "U+30FD", "U+30FE", "U+A015", "U+A4F8", "U+A4F9", "U+A4FA", "U+A4FB",
     "U+A4FC", "U+A4FD", "U+A60C", "U+A66F", "U+A670", "U+A671", "U+A672",
     "U+A674", "U+A675", "U+A676", "U+A677", "U+A678", "U+A679", "U+A67A",
     "U+A67B", "U+A67C", "U+A67D", "U+A67F", "U+A69C", "U+A69D", "U+A69E",
     "U+A69F", "U+A6F0", "U+A6F1", "U+A700", "U+A701", "U+A702", "U+A703",
     "U+A704", "U+A705", "U+A706", "U+A707", "U+A708", "U+A709", "U+A70A",
     "U+A70B", "U+A70C", "U+A70D", "U+A70E", "U+A70F", "U+A710", "U+A711",
     "U+A712", "U+A713", "U+A714", "U+A715", "U+A716", "U+A717", "U+A718",
     "U+A719", "U+A71A", "U+A71B", "U+A71C", "U+A71D", "U+A71E", "U+A71F",
     "U+A720", "U+A721", "U+A770", "U+A788", "U+A789", "U+A78A", "U+A7F1",
     "U+A7F2", "U+A7F3", "U+A7F4", "U+A7F8", "U+A7F9", "U+A802", "U+A806",
     "U+A80B", "U+A825", "U+A826", "U+A82C", "U+A8C4", "U+A8C5", "U+A8E0",
     "U+A8E1", "U+A8E2", "U+A8E3", "U+A8E4", "U+A8E5", "U+A8E6", "U+A8E7",
     "U+A8E8", "U+A8E9", "U+A8EA", "U+A8EB", "U+A8EC", "U+A8ED", "U+A8EE",
     "U+A8EF", "U+A8F0", "U+A8F1", "U+A8FF", "U+A926", "U+A927", "U+A928",
     "U+A929", "U+A92A", "U+A92B", "U+A92C", "U+A92D", "U+A947", "U+A948",
     "U+A949", "U+A94A", "U+A94B", "U+A94C", "U+A94D", "U+A94E", "U+A94F",
     "U+A950", "U+A951", "U+A980", "U+A981", "U+A982", "U+A9B3", "U+A9B6",
     "U+A9B7", "U+A9B8", "U+A9B9", "U+A9BC", "U+A9BD", "U+A9CF", "U+A9E5",
     "U+A9E6", "U+AA29", "U+AA2A", "U+AA2B", "U+AA2C", "U+AA2D", "U+AA2E",
     "U+AA31", "U+AA32", "U+AA35", "U+AA36", "U+AA43", "U+AA4C", "U+AA70",
     "U+AA7C", "U+AAB0", "U+AAB2", "U+AAB3", "U+AAB4", "U+AAB7", "U+AAB8",
     "U+AABE", "U+AABF", "U+AAC1", "U+AADD", "U+AAEC", "U+AAED", "U+AAF3",
     "U+AAF4", "U+AAF6", "U+AB5B", "U+AB5C", "U+AB5D", "U+AB5E", "U+AB5F",
     "U+AB69", "U+AB6A", "U+AB6B", "U+ABE5", "U+ABE8", "U+ABED", "U+FB1E",
     "U+FBB2", "U+FBB3", "U+FBB4", "U+FBB5", "U+FBB6", "U+FBB7", "U+FBB8",
     "U+FBB9", "U+FBBA", "U+FBBB", "U+FBBC", "U+FBBD", "U+FBBE", "U+FBBF",
     "U+FBC0", "U+FBC1", "U+FBC2", "U+FE00", "U+FE01", "U+FE02", "U+FE03",
     "U+FE04", "U+FE05", "U+FE06", "U+FE07", "U+FE08", "U+FE09", "U+FE0A",
     "U+FE0B", "U+FE0C", "U+FE0D", "U+FE0E", "U+FE0F", "U+FE13", "U+FE20",
     "U+FE21", "U+FE22", "U+FE23", "U+FE24", "U+FE25", "U+FE26", "U+FE27",
     "U+FE28", "U+FE29", "U+FE2A", "U+FE2B", "U+FE2C", "U+FE2D", "U+FE2E",
     "U+FE2F", "U+FE52", "U+FE55", "U+FEFF", "U+FF07", "U+FF0E", "U+FF1A",
     "U+FF3E", "U+FF40", "U+FF70", "U+FF9E", "U+FF9F", "U+FFE3", "U+FFF9",
     "U+FFFA", "U+FFFB"}

\* the same two properties outside the Basic Multilingual Plane: a high
\* surrogate with the low surrogates that follow it
CasedSupplementary ==
    {<<"U+D801",
       {"U+DC00", "U+DC01", "U+DC02", "U+DC03", "U+DC04", "U+DC05", "U+DC06",
        "U+DC07", "U+DC08", "U+DC09", "U+DC0A", "U+DC0B", "U+DC0C", "U+DC0D",
        "U+DC0E", "U+DC0F", "U+DC10", "U+DC11", "U+DC12", "U+DC13", "U+DC14",
        "U+DC15", "U+DC16", "U+DC17", "U+DC18", "U+DC19", "U+DC1A", "U+DC1B",
        "U+DC1C", "U+DC1D", "U+DC1E", "U+DC1F", "U+DC20", "U+DC21", "U+DC22",
        "U+DC23", "U+DC24", "U+DC25", "U+DC26", "U+DC27", "U+DC28", "U+DC29",
        "U+DC2A", "U+DC2B", "U+DC2C", "U+DC2D", "U+DC2E", "U+DC2F", "U+DC30",
        "U+DC31", "U+DC32", "U+DC33", "U+DC34", "U+DC35", "U+DC36", "U+DC37",
        "U+DC38", "U+DC39", "U+DC3A", "U+DC3B", "U+DC3C", "U+DC3D", "U+DC3E",
        "U+DC3F", "U+DC40", "U+DC41", "U+DC42", "U+DC43", "U+DC44", "U+DC45",
        "U+DC46", "U+DC47", "U+DC48", "U+DC49", "U+DC4A", "U+DC4B", "U+DC4C",
        "U+DC4D", "U+DC4E", "U+DC4F", "U+DCB0", "U+DCB1", "U+DCB2", "U+DCB3",
        "U+DCB4", "U+DCB5", "U+DCB6", "U+DCB7", "U+DCB8", "U+DCB9", "U+DCBA",
        "U+DCBB", "U+DCBC", "U+DCBD", "U+DCBE", "U+DCBF", "U+DCC0", "U+DCC1",
        "U+DCC2", "U+DCC3", "U+DCC4", "U+DCC5", "U+DCC6", "U+DCC7", "U+DCC8",
        "U+DCC9", "U+DCCA", "U+DCCB", "U+DCCC", "U+DCCD", "U+DCCE", "U+DCCF",
        "U+DCD0", "U+DCD1", "U+DCD2", "U+DCD3", "U+DCD8", "U+DCD9", "U+DCDA",
        "U+DCDB", "U+DCDC", "U+DCDD", "U+DCDE", "U+DCDF", "U+DCE0", "U+DCE1",
        "U+DCE2", "U+DCE3", "U+DCE4", "U+DCE5", "U+DCE6", "U+DCE7", "U+DCE8",
        "U+DCE9", "U+DCEA", "U+DCEB", "U+DCEC", "U+DCED", "U+DCEE", "U+DCEF",
        "U+DCF0", "U+DCF1", "U+DCF2", "U+DCF3", "U+DCF4", "U+DCF5", "U+DCF6",
        "U+DCF7", "U+DCF8", "U+DCF9", "U+DCFA", "U+DCFB", "U+DD70", "U+DD71",
        "U+DD72", "U+DD73", "U+DD74", "U+DD75", "U+DD76", "U+DD77", "U+DD78",
        "U+DD79", "U+DD7A", "U+DD7C", "U+DD7D", "U+DD7E", "U+DD7F", "U+DD80",
        "U+DD81", "U+DD82", "U+DD83", "U+DD84", "U+DD85", "U+DD86", "U+DD87",
        "U+DD88", "U+DD89", "U+DD8A", "U+DD8C", "U+DD8D", "U+DD8E", "U+DD8F",
        "U+DD90", "U+DD91", "U+DD92", "U+DD94", "U+DD95", "U+DD97", "U+DD98",
        "U+DD99", "U+DD9A", "U+DD9B", "U+DD9C", "U+DD9D", "U+DD9E", "U+DD9F",
        "U+DDA0", "U+DDA1", "U+DDA3", "U+DDA4", "U+DDA5", "U+DDA6", "U+DDA7",
        "U+DDA8", "U+DDA9", "U+DDAA", "U+DDAB", "U+DDAC", "U+DDAD", "U+DDAE",
        "U+DDAF", "U+DDB0", "U+DDB1", "U+DDB3", "U+DDB4", "U+DDB5", "U+DDB6",
        "U+DDB7", "U+DDB8", "U+DDB9", "U+DDBB", "U+DDBC"}>>,
     <<"U+D803",
       {"U+DC80", "U+DC81", "U+DC82", "U+DC83", "U+DC84", "U+DC85", "U+DC86",
        "U+DC87", "U+DC88", "U+DC89", "U+DC8A", "U+DC8B", "U+DC8C", "U+DC8D",
        "U+DC8E", "U+DC8F", "U+DC90", "U+DC91", "U+DC92", "U+DC93", "U+DC94",
        "U+DC95", "U+DC96", "U+DC97", "U+DC98", "U+DC99", "U+DC9A", "U+DC9B",
        "U+DC9C", "U+DC9D", "U+DC9E", "U+DC9F", "U+DCA0", "U+DCA1", "U+DCA2",
        "U+DCA3", "U+DCA4", "U+DCA5", "U+DCA6", "U+DCA7", "U+DCA8", "U+DCA9",
        "U+DCAA", "U+DCAB", "U+DCAC", "U+DCAD", "U+DCAE", "U+DCAF", "U+DCB0",
        "U+DCB1", "U+DCB2", "U+DCC0", "U+DCC1", "U+DCC2", "U+DCC3", "U+DCC4",
        "U+DCC5", "U+DCC6", "U+DCC7", "U+DCC8", "U+DCC9", "U+DCCA", "U+DCCB",
        "U+DCCC", "U+DCCD", "U+DCCE", "U+DCCF", "U+DCD0", "U+DCD1", "U+DCD2",
        "U+DCD3", "U+DCD4", "U+DCD5", "U+DCD6", "U+DCD7", "U+DCD8", "U+DCD9",
        "U+DCDA", "U+DCDB", "U+DCDC", "U+DCDD", "U+DCDE", "U+DCDF", "U+DCE0",
        "U+DCE1", "U+DCE2", "U+DCE3", "U+DCE4", "U+DCE5", "U+DCE6", "U+DCE7",
        "U+DCE8", "U+DCE9", "U+DCEA", "U+DCEB", "U+DCEC", "U+DCED", "U+DCEE",
        "U+DCEF", "U+DCF0", "U+DCF1", "U+DCF2", "U+DD50", "U+DD51", "U+DD52",
        "U+DD53", "U+DD54", "U+DD55", "U+DD56", "U+DD57", "U+DD58", "U+DD59",
        "U+DD5A", "U+DD5B", "U+DD5C", "U+DD5D", "U+DD5E", "U+DD5F", "U+DD60",
        "U+DD61", "U+DD62", "U+DD63", "U+DD64", "U+DD65", "U+DD70", "U+DD71",
        "U+DD72", "U+DD73", "U+DD74", "U+DD75", "U+DD76", "U+DD77", "U+DD78",
        "U+DD79", "U+DD7A", "U+DD7B", "U+DD7C", "U+DD7D", "U+DD7E", "U+DD7F",
        "U+DD80", "U+DD81", "U+DD82", "U+DD83", "U+DD84", "U+DD85"}>>,
     <<"U+D806",
       {"U+DCA0", "U+DCA1", "U+DCA2", "U+DCA3", "U+DCA4", "U+DCA5", "U+DCA6",
        "U+DCA7", "U+DCA8", "U+DCA9", "U+DCAA", "U+DCAB", "U+DCAC", "U+DCAD",
        "U+DCAE", "U+DCAF", "U+DCB0", "U+DCB1", "U+DCB2", "U+DCB3", "U+DCB4",
        "U+DCB5", "U+DCB6", "U+DCB7", "U+DCB8", "U+DCB9", "U+DCBA", "U+DCBB",
        "U+DCBC", "U+DCBD", "U+DCBE", "U+DCBF", "U+DCC0", "U+DCC1", "U+DCC2",
        "U+DCC3", "U+DCC4", "U+DCC5", "U+DCC6", "U+DCC7", "U+DCC8", "U+DCC9",
        "U+DCCA", "U+DCCB", "U+DCCC", "U+DCCD", "U+DCCE", "U+DCCF", "U+DCD0",
        "U+DCD1", "U+DCD2", "U+DCD3", "U+DCD4", "U+DCD5", "U+DCD6", "U+DCD7",
        "U+DCD8", "U+DCD9", "U+DCDA", "U+DCDB", "U+DCDC", "U+DCDD", "U+DCDE",
        "U+DCDF"}>>,
     <<"U+D81B",
       {"U+DE40", "U+DE41", "U+DE42", "U+DE43", "U+DE44", "U+DE45", "U+DE46",
        "U+DE47", "U+DE48", "U+DE49", "U+DE4A", "U+DE4B", "U+DE4C", "U+DE4D",
        "U+DE4E", "U+DE4F", "U+DE50", "U+DE51", "U+DE52", "U+DE53", "U+DE54",
        "U+DE55", "U+DE56", "U+DE57", "U+DE58", "U+DE59", "U+DE5A", "U+DE5B",
        "U+DE5C", "U+DE5D", "U+DE5E", "U+DE5F", "U+DE60", "U+DE61", "U+DE62",
        "U+DE63", "U+DE64", "U+DE65", "U+DE66", "U+DE67", "U+DE68", "U+DE69",
        "U+DE6A", "U+DE6B", "U+DE6C", "U+DE6D", "U+DE6E", "U+DE6F", "U+DE70",
        "U+DE71", "U+DE72", "U+DE73", "U+DE74", "U+DE75", "U+DE76", "U+DE77",
        "U+DE78", "U+DE79", "U+DE7A", "U+DE7B", "U+DE7C", "U+DE7D", "U+DE7E",
        "U+DE7F", "U+DEA0", "U+DEA1", "U+DEA2", "U+DEA3", "U+DEA4", "U+DEA5",
        "U+DEA6", "U+DEA7", "U+DEA8", "U+DEA9", "U+DEAA", "U+DEAB", "U+DEAC",
        "U+DEAD", "U+DEAE", "U+DEAF", "U+DEB0", "U+DEB1", "U+DEB2", "U+DEB3",
        "U+DEB4", "U+DEB5", "U+DEB6", "U+DEB7", "U+DEB8", "U+DEBB", "U+DEBC",
        "U+DEBD", "U+DEBE", "U+DEBF", "U+DEC0", "U+DEC1", "U+DEC2", "U+DEC3",
        "U+DEC4", "U+DEC5", "U+DEC6", "U+DEC7", "U+DEC8", "U+DEC9", "U+DECA",
        "U+DECB", "U+DECC", "U+DECD", "U+DECE", "U+DECF", "U+DED0", "U+DED1",
        "U+DED2", "U+DED3"}>>,
     <<"U+D835",
       {"U+DC00", "U+DC01", "U+DC02", "U+DC03", "U+DC04", "U+DC05", "U+DC06",
        "U+DC07", "U+DC08", "U+DC09", "U+DC0A", "U+DC0B", "U+DC0C", "U+DC0D",
        "U+DC0E", "U+DC0F", "U+DC10", "U+DC11", "U+DC12", "U+DC13", "U+DC14",
        "U+DC15", "U+DC16", "U+DC17", "U+DC18", "U+DC19", "U+DC1A", "U+DC1B",
        "U+DC1C", "U+DC1D", "U+DC1E", "U+DC1F", "U+DC20", "U+DC21", "U+DC22",
        "U+DC23", "U+DC24", "U+DC25", "U+DC26", "U+DC27", "U+DC28", "U+DC29",
        "U+DC2A", "U+DC2B", "U+DC2C", "U+DC2D", "U+DC2E", "U+DC2F", "U+DC30",
        "U+DC31", "U+DC32", "U+DC33", "U+DC34", "U+DC35", "U+DC36", "U+DC37",
        "U+DC38", "U+DC39", "U+DC3A", "U+DC3B", "U+DC3C", "U+DC3D", "U+DC3E",
        "U+DC3F", "U+DC40", "U+DC41", "U+DC42", "U+DC43", "U+DC44", "U+DC45",
        "U+DC46", "U+DC47", "U+DC48", "U+DC49", "U+DC4A", "U+DC4B", "U+DC4C",
        "U+DC4D", "U+DC4E", "U+DC4F", "U+DC50", "U+DC51", "U+DC52", "U+DC53",
        "U+DC54", "U+DC56", "U+DC57", "U+DC58", "U+DC59", "U+DC5A", "U+DC5B",
        "U+DC5C", "U+DC5D", "U+DC5E", "U+DC5F", "U+DC60", "U+DC61", "U+DC62",
        "U+DC63", "U+DC64", "U+DC65", "U+DC66", "U+DC67", "U+DC68", "U+DC69",
        "U+DC6A", "U+DC6B", "U+DC6C", "U+DC6D", "U+DC6E", "U+DC6F", "U+DC70",
        "U+DC71", "U+DC72", "U+DC73", "U+DC74", "U+DC75", "U+DC76", "U+DC77",
        "U+DC78", "U+DC79", "U+DC7A", "U+DC7B", "U+DC7C", "U+DC7D", "U+DC7E",
        "U+DC7F", "U+DC80", "U+DC81", "U+DC82", "U+DC83", "U+DC84", "U+DC85",
        "U+DC86", "U+DC87", "U+DC88", "U+DC89", "U+DC8A", "U+DC8B", "U+DC8C",
        "U+DC8D", "U+DC8E", "U+DC8F", "U+DC90", "U+DC91", "U+DC92", "U+DC93",
        "U+DC94", "U+DC95", "U+DC96", "U+DC97", "U+DC98", "U+DC99", "U+DC9A",
        "U+DC9B", "U+DC9C", "U+DC9E", "U+DC9F", "U+DCA2", "U+DCA5", "U+DCA6",
        "U+DCA9", "U+DCAA", "U+DCAB", "U+DCAC", "U+DCAE", "U+DCAF", "U+DCB0",
        "U+DCB1", "U+DCB2", "U+DCB3", "U+DCB4", "U+DCB5", "U+DCB6", "U+DCB7",
        "U+DCB8", "U+DCB9", "U+DCBB", "U+DCBD", "U+DCBE", "U+DCBF", "U+DCC0",
        "U+DCC1", "U+DCC2", "U+DCC3", "U+DCC5", "U+DCC6", "U+DCC7", "U+DCC8",
        "U+DCC9", "U+DCCA", "U+DCCB", "U+DCCC", "U+DCCD", "U+DCCE", "U+DCCF",
        "U+DCD0", "U+DCD1", "U+DCD2", "U+DCD3", "U+DCD4", "U+DCD5", "U+DCD6",
        "U+DCD7", "U+DCD8", "U+DCD9", "U+DCDA", "U+DCDB", "U+DCDC", "U+DCDD",
        "U+DCDE", "U+DCDF", "U+DCE0", "U+DCE1", "U+DCE2", "U+DCE3", "U+DCE4",
        "U+DCE5", "U+DCE6", "U+DCE7", "U+DCE8", "U+DCE9", "U+DCEA", "U+DCEB",
        "U+DCEC", "U+DCED", "U+DCEE", "U+DCEF", "U+DCF0", "U+DCF1", "U+DCF2",
        "U+DCF3", "U+DCF4", "U+DCF5", "U+DCF6", "U+DCF7", "U+DCF8", "U+DCF9",
        "U+DCFA", "U+DCFB", "U+DCFC", "U+DCFD", "U+DCFE", "U+DCFF", "U+DD00",
        "U+DD01", "U+DD02", "U+DD03", "U+DD04", "U+DD05", "U+DD07", "U+DD08",
        "U+DD09", "U+DD0A", "U+DD0D", "U+DD0E", "U+DD0F", "U+DD10", "U+DD11",
        "U+DD12", "U+DD13", "U+DD14", "U+DD16", "U+DD17", "U+DD18", "U+DD19",
        "U+DD1A", "U+DD1B", "U+DD1C", "U+DD1E", "U+DD1F", "U+DD20", "U+DD21",
        "U+DD22", "U+DD23", "U+DD24", "U+DD25", "U+DD26", "U+DD27", "U+DD28",
        "U+DD29", "U+DD2A", "U+DD2B", "U+DD2C", "U+DD2D", "U+DD2E", "U+DD2F",
        "U+DD30", "U+DD31", "U+DD32", "U+DD33", "U+DD34", "U+DD35", "U+DD36",
        "U+DD37", "U+DD38", "U+DD39", "U+DD3B", "U+DD3C", "U+DD3D", "U+DD3E",
        "U+DD40", "U+DD41", "U+DD42", "U+DD43", "U+DD44", "U+DD46", "U+DD4A",
        "U+DD4B", "U+DD4C", "U+DD4D", "U+DD4E", "U+DD4F", "U+DD50", "U+DD52",
        "U+DD53", "U+DD54", "U+DD55", "U+DD56", "U+DD57", "U+DD58", "U+DD59",
        "U+DD5A", "U+DD5B", "U+DD5C", "U+DD5D", "U+DD5E", "U+DD5F", "U+DD60",
        "U+DD61", "U+DD62", "U+DD63", "U+DD64", "U+DD65", "U+DD66", "U+DD67",
        "U+DD68", "U+DD69", "U+DD6A", "U+DD6B", "U+DD6C", "U+DD6D", "U+DD6E",
        "U+DD6F", "U+DD70", "U+DD71", "U+DD72", "U+DD73", "U+DD74", "U+DD75",
        "U+DD76", "U+DD77", "U+DD78", "U+DD79", "U+DD7A", "U+DD7B", "U+DD7C",
        "U+DD7D", "U+DD7E", "U+DD7F", "U+DD80", "U+DD81", "U+DD82", "U+DD83",
        "U+DD84", "U+DD85", "U+DD86", "U+DD87", "U+DD88", "U+DD89", "U+DD8A",
        "U+DD8B", "U+DD8C", "U+DD8D", "U+DD8E", "U+DD8F", "U+DD90", "U+DD91",
        "U+DD92", "U+DD93", "U+DD94", "U+DD95", "U+DD96", "U+DD97", "U+DD98",
        "U+DD99", "U+DD9A", "U+DD9B", "U+DD9C", "U+DD9D", "U+DD9E", "U+DD9F",
        "U+DDA0", "U+DDA1", "U+DDA2", "U+DDA3", "U+DDA4", "U+DDA5", "U+DDA6",
        "U+DDA7", "U+DDA8", "U+DDA9", "U+DDAA", "U+DDAB", "U+DDAC", "U+DDAD",
        "U+DDAE", "U+DDAF", "U+DDB0", "U+DDB1", "U+DDB2", "U+DDB3", "U+DDB4",
        "U+DDB5", "U+DDB6", "U+DDB7", "U+DDB8", "U+DDB9", "U+DDBA", "U+DDBB",
        "U+DDBC", "U+DDBD", "U+DDBE", "U+DDBF", "U+DDC0", "U+DDC1", "U+DDC2",
        "U+DDC3", "U+DDC4", "U+DDC5", "U+DDC6", "U+DDC7", "U+DDC8", "U+DDC9",
        "U+DDCA", "U+DDCB", "U+DDCC", "U+DDCD", "U+DDCE", "U+DDCF", "U+DDD0",
        "U+DDD1", "U+DDD2", "U+DDD3", "U+DDD4", "U+DDD5", "U+DDD6", "U+DDD7",
        "U+DDD8", "U+DDD9", "U+DDDA", "U+DDDB", "U+DDDC", "U+DDDD", "U+DDDE",
        "U+DDDF", "U+DDE0", "U+DDE1", "U+DDE2", "U+DDE3", "U+DDE4", "U+DDE5",
        "U+DDE6", "U+DDE7", "U+DDE8", "U+DDE9", "U+DDEA", "U+DDEB", "U+DDEC",
        "U+DDED", "U+DDEE", "U+DDEF", "U+DDF0", "U+DDF1", "U+DDF2", "U+DDF3",
        "U+DDF4", "U+DDF5", "U+DDF6", "U+DDF7", "U+DDF8", "U+DDF9", "U+DDFA",
        "U+DDFB", "U+DDFC", "U+DDFD", "U+DDFE", "U+DDFF", "U+DE00", "U+DE01",
        "U+DE02", "U+DE03", "U+DE04", "U+DE05", "U+DE06", "U+DE07", "U+DE08",
        "U+DE09", "U+DE0A", "U+DE0B", "U+DE0C", "U+DE0D", "U+DE0E", "U+DE0F",
        "U+DE10", "U+DE11", "U+DE12", "U+DE13", "U+DE14", "U+DE15", "U+DE16",
        "U+DE17", "U+DE18", "U+DE19", "U+DE1A", "U+DE1B", "U+DE1C", "U+DE1D",
        "U+DE1E", "U+DE1F", "U+DE20", "U+DE21", "U+DE22", "U+DE23", "U+DE24",
        "U+DE25", "U+DE26", "U+DE27", "U+DE28", "U+DE29", "U+DE2A", "U+DE2B",
        "U+DE2C", "U+DE2D", "U+DE2E", "U+DE2F", "U+DE30", "U+DE31", "U+DE32",
        "U+DE33", "U+DE34", "U+DE35", "U+DE36", "U+DE37", "U+DE38", "U+DE39",
        "U+DE3A", "U+DE3B", "U+DE3C", "U+DE3D", "U+DE3E", "U+DE3F", "U+DE40",
        "U+DE41", "U+DE42", "U+DE43", "U+DE44", "U+DE45", "U+DE46", "U+DE47",
        "U+DE48", "U+DE49", "U+DE4A", "U+DE4B", "U+DE4C", "U+DE4D", "U+DE4E",
        "U+DE4F", "U+DE50", "U+DE51", "U+DE52", "U+DE53", "U+DE54", "U+DE55",
        "U+DE56", "U+DE57", "U+DE58", "U+DE59", "U+DE5A", "U+DE5B", "U+DE5C",
        "U+DE5D", "U+DE5E", "U+DE5F", "U+DE60", "U+DE61", "U+DE62", "U+DE63",
        "U+DE64", "U+DE65", "U+DE66", "U+DE67", "U+DE68", "U+DE69", "U+DE6A",
        "U+DE6B", "U+DE6C", "U+DE6D", "U+DE6E", "U+DE6F", "U+DE70", "U+DE71",
        "U+DE72", "U+DE73", "U+DE74", "U+DE75", "U+DE76", "U+DE77", "U+DE78",
        "U+DE79", "U+DE7A", "U+DE7B", "U+DE7C", "U+DE7D", "U+DE7E", "U+DE7F",
        "U+DE80", "U+DE81", "U+DE82", "U+DE83", "U+DE84", "U+DE85", "U+DE86",
        "U+DE87", "U+DE88", "U+DE89", "U+DE8A", "U+DE8B", "U+DE8C", "U+DE8D",
        "U+DE8E", "U+DE8F", "U+DE90", "U+DE91", "U+DE92", "U+DE93", "U+DE94",
        "U+DE95", "U+DE96", "U+DE97", "U+DE98", "U+DE99", "U+DE9A", "U+DE9B",
        "U+DE9C", "U+DE9D", "U+DE9E", "U+DE9F", "U+DEA0", "U+DEA1", "U+DEA2",
        "U+DEA3", "U+DEA4", "U+DEA5", "U+DEA8", "U+DEA9", "U+DEAA", "U+DEAB",
        "U+DEAC", "U+DEAD", "U+DEAE", "U+DEAF", "U+DEB0", "U+DEB1", "U+DEB2",
        "U+DEB3", "U+DEB4", "U+DEB5", "U+DEB6", "U+DEB7", "U+DEB8", "U+DEB9",
        "U+DEBA", "U+DEBB", "U+DEBC", "U+DEBD", "U+DEBE", "U+DEBF", "U+DEC0",
        "U+DEC2", "U+DEC3", "U+DEC4", "U+DEC5", "U+DEC6", "U+DEC7", "U+DEC8",
        "U+DEC9", "U+DECA", "U+DECB", "U+DECC", "U+DECD", "U+DECE", "U+DECF",
        "U+DED0", "U+DED1", "U+DED2", "U+DED3", "U+DED4", "U+DED5", "U+DED6",
        "U+DED7", "U+DED8", "U+DED9", "U+DEDA", "U+DEDC", "U+DEDD", "U+DEDE",
        "U+DEDF", "U+DEE0", "U+DEE1", "U+DEE2", "U+DEE3", "U+DEE4", "U+DEE5",
        "U+DEE6", "U+DEE7", "U+DEE8", "U+DEE9", "U+DEEA", "U+DEEB", "U+DEEC",
        "U+DEED", "U+DEEE", "U+DEEF", "U+DEF0", "U+DEF1", "U+DEF2", "U+DEF3",
        "U+DEF4", "U+DEF5", "U+DEF6", "U+DEF7", "U+DEF8", "U+DEF9", "U+DEFA",
        "U+DEFC", "U+DEFD", "U+DEFE", "U+DEFF", "U+DF00", "U+DF01", "U+DF02",
        "U+DF03", "U+DF04", "U+DF05", "U+DF06", "U+DF07", "U+DF08", "U+DF09",
        "U+DF0A", "U+DF0B", "U+DF0C", "U+DF0D", "U+DF0E", "U+DF0F", "U+DF10",
        "U+DF11", "U+DF12", "U+DF13", "U+DF14", "U+DF16", "U+DF17", "U+DF18",
        "U+DF19", "U+DF1A", "U+DF1B", "U+DF1C", "U+DF1D", "U+DF1E", "U+DF1F",
        "U+DF20", "U+DF21", "U+DF22", "U+DF23", "U+DF24", "U+DF25", "U+DF26",
        "U+DF27", "U+DF28", "U+DF29", "U+DF2A", "U+DF2B", "U+DF2C", "U+DF2D",
        "U+DF2E", "U+DF2F", "U+DF30", "U+DF31", "U+DF32", "U+DF33", "U+DF34",
        "U+DF36", "U+DF37", "U+DF38", "U+DF39", "U+DF3A", "U+DF3B", "U+DF3C",
        "U+DF3D", "U+DF3E", "U+DF3F", "U+DF40", "U+DF41", "U+DF42", "U+DF43",
        "U+DF44", "U+DF45", "U+DF46", "U+DF47", "U+DF48", "U+DF49", "U+DF4A",
        "U+DF4B", "U+DF4C", "U+DF4D", "U+DF4E", "U+DF50", "U+DF51", "U+DF52",
        "U+DF53", "U+DF54", "U+DF55", "U+DF56", "U+DF57", "U+DF58", "U+DF59",
        "U+DF5A", "U+DF5B", "U+DF5C", "U+DF5D", "U+DF5E", "U+DF5F", "U+DF60",
        "U+DF61", "U+DF62", "U+DF63", "U+DF64", "U+DF65", "U+DF66", "U+DF67",
        "U+DF68", "U+DF69", "U+DF6A", "U+DF6B", "U+DF6C", "U+DF6D", "U+DF6E",
        "U+DF70", "U+DF71", "U+DF72", "U+DF73", "U+DF74", "U+DF75", "U+DF76",
        "U+DF77", "U+DF78", "U+DF79", "U+DF7A", "U+DF7B", "U+DF7C", "U+DF7D",
        "U+DF7E", "U+DF7F", "U+DF80", "U+DF81", "U+DF82", "U+DF83", "U+DF84",
        "U+DF85", "U+DF86", "U+DF87", "U+DF88", "U+DF8A", "U+DF8B", "U+DF8C",
        "U+DF8D", "U+DF8E", "U+DF8F", "U+DF90", "U+DF91", "U+DF92", "U+DF93",
        "U+DF94", "U+DF95", "U+DF96", "U+DF97", "U+DF98", "U+DF99", "U+DF9A",
        "U+DF9B", "U+DF9C", "U+DF9D", "U+DF9E", "U+DF9F", "U+DFA0", "U+DFA1",
        "U+DFA2", "U+DFA3", "U+DFA4", "U+DFA5", "U+DFA6", "U+DFA7", "U+DFA8",
        "U+DFAA", "U+DFAB", "U+DFAC", "U+DFAD", "U+DFAE", "U+DFAF", "U+DFB0",
        "U+DFB1", "U+DFB2", "U+DFB3", "U+DFB4", "U+DFB5", "U+DFB6", "U+DFB7",
        "U+DFB8", "U+DFB9", "U+DFBA", "U+DFBB", "U+DFBC", "U+DFBD", "U+DFBE",
        "U+DFBF", "U+DFC0", "U+DFC1", "U+DFC2", "U+DFC4", "U+DFC5", "U+DFC6",
        "U+DFC7", "U+DFC8", "U+DFC9", "U+DFCA", "U+DFCB"}>>,
     <<"U+D837",
       {"U+DF00", "U+DF01", "U+DF02", "U+DF03", "U+DF04", "U+DF05", "U+DF06",
        "U+DF07", "U+DF08", "U+DF09", "U+DF0B", "U+DF0C", "U+DF0D", "U+DF0E",
        "U+DF0F", "U+DF10", "U+DF11", "U+DF12", "U+DF13", "U+DF14", "U+DF15",
        "U+DF16", "U+DF17", "U+DF18", "U+DF19", "U+DF1A", "U+DF1B", "U+DF1C",
        "U+DF1D", "U+DF1E", "U+DF25", "U+DF26", "U+DF27", "U+DF28", "U+DF29",
        "U+DF2A"}>>,
     <<"U+D83A",
       {"U+DD00", "U+DD01", "U+DD02", "U+DD03", "U+DD04", "U+DD05", "U+DD06",
        "U+DD07", "U+DD08", "U+DD09", "U+DD0A", "U+DD0B", "U+DD0C", "U+DD0D",
        "U+DD0E", "U+DD0F", "U+DD10", "U+DD11", "U+DD12", "U+DD13", "U+DD14",
        "U+DD15", "U+DD16", "U+DD17", "U+DD18", "U+DD19", "U+DD1A", "U+DD1B",
        "U+DD1C", "U+DD1D", "U+DD1E", "U+DD1F", "U+DD20", "U+DD21", "U+DD22",
        "U+DD23", "U+DD24", "U+DD25", "U+DD26", "U+DD27", "U+DD28", "U+DD29",
        "U+DD2A", "U+DD2B", "U+DD2C", "U+DD2D", "U+DD2E", "U+DD2F", "U+DD30",
        "U+DD31", "U+DD32", "U+DD33", "U+DD34", "U+DD35", "U+DD36", "U+DD37",
        "U+DD38", "U+DD39", "U+DD3A", "U+DD3B", "U+DD3C", "U+DD3D", "U+DD3E",
        "U+DD3F", "U+DD40", "U+DD41", "U+DD42", "U+DD43"}>>,
     <<"U+D83C",
       {"U+DD30", "U+DD31", "U+DD32", "U+DD33", "U+DD34", "U+DD35", "U+DD36",
        "U+DD37", "U+DD38", "U+DD39", "U+DD3A", "U+DD3B", "U+DD3C", "U+DD3D",
        "U+DD3E", "U+DD3F", "U+DD40", "U+DD41", "U+DD42", "U+DD43", "U+DD44",
        "U+DD45", "U+DD46", "U+DD47", "U+DD48", "U+DD49", "U+DD50", "U+DD51",
        "U+DD52", "U+DD53", "U+DD54", "U+DD55", "U+DD56", "U+DD57", "U+DD58",
        "U+DD59", "U+DD5A", "U+DD5B", "U+DD5C", "U+DD5D", "U+DD5E", "U+DD5F",
        "U+DD60", "U+DD61", "U+DD62", "U+DD63", "U+DD64", "U+DD65", "U+DD66",
        "U+DD67", "U+DD68", "U+DD69", "U+DD70", "U+DD71", "U+DD72", "U+DD73",
        "U+DD74", "U+DD75", "U+DD76", "U+DD77", "U+DD78", "U+DD79", "U+DD7A",
        "U+DD7B", "U+DD7C", "U+DD7D", "U+DD7E", "U+DD7F", "U+DD80", "U+DD81",
        "U+DD82", "U+DD83", "U+DD84", "U+DD85", "U+DD86", "U+DD87", "U+DD88",
        "U+DD89"}>>}

CaseIgnorableSupplementary ==
    {<<"U+D800",
       {"U+DDFD", "U+DEE0", "U+DF76", "U+DF77", "U+DF78", "U+DF79", "U+DF7A"}>>,
     <<"U+D801",
       {"U+DF80", "U+DF81", "U+DF82", "U+DF83", "U+DF84", "U+DF85", "U+DF87",
        "U+DF88", "U+DF89", "U+DF8A", "U+DF8B", "U+DF8C", "U+DF8D", "U+DF8E",
        "U+DF8F", "U+DF90", "U+DF91", "U+DF92", "U+DF93", "U+DF94", "U+DF95",
        "U+DF96", "U+DF97", "U+DF98", "U+DF99", "U+DF9A", "U+DF9B", "U+DF9C",
        "U+DF9D", "U+DF9E", "U+DF9F", "U+DFA0", "U+DFA1", "U+DFA2", "U+DFA3",
        "U+DFA4", "U+DFA5", "U+DFA6", "U+DFA7", "U+DFA8", "U+DFA9", "U+DFAA",
        "U+DFAB", "U+DFAC", "U+DFAD", "U+DFAE", "U+DFAF", "U+DFB0", "U+DFB2",
        "U+DFB3", "U+DFB4", "U+DFB5", "U+DFB6", "U+DFB7", "U+DFB8", "U+DFB9",
        "U+DFBA"}>>,
     <<"U+D802",
       {"U+DE01", "U+DE02", "U+DE03", "U+DE05", "U+DE06", "U+DE0C", "U+DE0D",
        "U+DE0E", "U+DE0F", "U+DE38", "U+DE39", "U+DE3A", "U+DE3F", "U+DEE5",
        "U+DEE6"}>>,
     <<"U+D803",
       {"U+DD24", "U+DD25", "U+DD26", "U+DD27", "U+DD4E", "U+DD69", "U+DD6A",
        "U+DD6B", "U+DD6C", "U+DD6D", "U+DD6F", "U+DEAB", "U+DEAC", "U+DEC5",
        "U+DEFA", "U+DEFB", "U+DEFC", "U+DEFD", "U+DEFE", "U+DEFF", "U+DF46",
        "U+DF47", "U+DF48", "U+DF49", "U+DF4A", "U+DF4B", "U+DF4C", "U+DF4D",
        "U+DF4E", "U+DF4F", "U+DF50", "U+DF82", "U+DF83", "U+DF84", "U+DF85"}>>,
     <<"U+D804",
       {"U+DC01", "U+DC38", "U+DC39", "U+DC3A", "U+DC3B", "U+DC3C", "U+DC3D",
        "U+DC3E", "U+DC3F", "U+DC40", "U+DC41", "U+DC42", "U+DC43", "U+DC44",
        "U+DC45", "U+DC46", "U+DC70", "U+DC73", "U+DC74", "U+DC7F", "U+DC80",
        "U+DC81", "U+DCB3", "U+DCB4", "U+DCB5", "U+DCB6", "U+DCB9", "U+DCBA",
        "U+DCBD", "U+DCC2", "U+DCCD", "U+DD00", "U+DD01", "U+DD02", "U+DD27",
        "U+DD28", "U+DD29", "U+DD2A", "U+DD2B", "U+DD2D", "U+DD2E", "U+DD2F",
        "U+DD30", "U+DD31", "U+DD32", "U+DD33", "U+DD34", "U+DD73", "U+DD80",
        "U+DD81", "U+DDB6", "U+DDB7", "U+DDB8", "U+DDB9", "U+DDBA", "U+DDBB",
        "U+DDBC", "U+DDBD", "U+DDBE", "U+DDC9", "U+DDCA", "U+DDCB", "U+DDCC",
        "U+DDCF", "U+DE2F", "U+DE30", "U+DE31", "U+DE34", "U+DE36", "U+DE37",
        "U+DE3E", "U+DE41", "U+DEDF", "U+DEE3", "U+DEE4", "U+DEE5", "U+DEE6",
        "U+DEE7", "U+DEE8", "U+DEE9", "U+DEEA", "U+DF00", "U+DF01", "U+DF3B",
        "U+DF3C", "U+DF40", "U+DF66", "U+DF67", "U+DF68", "U+DF69", "U+DF6A",
        "U+DF6B", "U+DF6C", "U+DF70", "U+DF71", "U+DF72", "U+DF73", "U+DF74",
        "U+DFBB", "U+DFBC", "U+DFBD", "U+DFBE", "U+DFBF", "U+DFC0", "U+DFCE",
        "U+DFD0", "U+DFD2", "U+DFE1", "U+DFE2"}>>,
     <<"U+D805",
       {"U+DC38", "U+DC39", "U+DC3A", "U+DC3B", "U+DC3C", "U+DC3D", "U+DC3E",
        "U+DC3F", "U+DC42", "U+DC43", "U+DC44", "U+DC46", "U+DC5E", "U+DCB3",
        "U+DCB4", "U+DCB5", "U+DCB6", "U+DCB7", "U+DCB8", "U+DCBA", "U+DCBF",
        "U+DCC0", "U+DCC2", "U+DCC3", "U+DDB2", "U+DDB3", "U+DDB4", "U+DDB5",
        "U+DDBC", "U+DDBD", "U+DDBF", "U+DDC0", "U+DDDC", "U+DDDD", "U+DE33",
        "U+DE34", "U+DE35", "U+DE36", "U+DE37", "U+DE38", "U+DE39", "U+DE3A",
        "U+DE3D", "U+DE3F", "U+DE40", "U+DEAB", "U+DEAD", "U+DEB0", "U+DEB1",
        "U+DEB2", "U+DEB3", "U+DEB4", "U+DEB5", "U+DEB7", "U+DF1D", "U+DF1F",
        "U+DF22", "U+DF23", "U+DF24", "U+DF25", "U+DF27", "U+DF28", "U+DF29",
        "U+DF2A", "U+DF2B"}>>,
     <<"U+D806",
       {"U+DC2F", "U+DC30", "U+DC31", "U+DC32", "U+DC33", "U+DC34", "U+DC35",
        "U+DC36", "U+DC37", "U+DC39", "U+DC3A", "U+DD3B", "U+DD3C", "U+DD3E",
        "U+DD43", "U+DDD4", "U+DDD5", "U+DDD6", "U+DDD7", "U+DDDA", "U+DDDB",
        "U+DDE0", "U+DE01", "U+DE02", "U+DE03", "U+DE04", "U+DE05", "U+DE06",
        "U+DE07", "U+DE08", "U+DE09", "U+DE0A", "U+DE33", "U+DE34", "U+DE35",
        "U+DE36", "U+DE37", "U+DE38", "U+DE3B", "U+DE3C", "U+DE3D", "U+DE3E",
        "U+DE47", "U+DE51", "U+DE52", "U+DE53", "U+DE54", "U+DE55", "U+DE56",
        "U+DE59", "U+DE5A", "U+DE5B", "U+DE8A", "U+DE8B", "U+DE8C", "U+DE8D",
        "U+DE8E", "U+DE8F", "U+DE90", "U+DE91", "U+DE92", "U+DE93", "U+DE94",
        "U+DE95", "U+DE96", "U+DE98", "U+DE99", "U+DF60", "U+DF62", "U+DF63",
        "U+DF64", "U+DF66"}>>,
     <<"U+D807",
       {"U+DC30", "U+DC31", "U+DC32", "U+DC33", "U+DC34", "U+DC35", "U+DC36",
        "U+DC38", "U+DC39", "U+DC3A", "U+DC3B", "U+DC3C", "U+DC3D", "U+DC3F",
        "U+DC92", "U+DC93", "U+DC94", "U+DC95", "U+DC96", "U+DC97", "U+DC98",
        "U+DC99", "U+DC9A", "U+DC9B", "U+DC9C", "U+DC9D", "U+DC9E", "U+DC9F",
        "U+DCA0", "U+DCA1", "U+DCA2", "U+DCA3", "U+DCA4", "U+DCA5", "U+DCA6",
        "U+DCA7", "U+DCAA", "U+DCAB", "U+DCAC", "U+DCAD", "U+DCAE", "U+DCAF",
        "U+DCB0", "U+DCB2", "U+DCB3", "U+DCB5", "U+DCB6", "U+DD31", "U+DD32",
        "U+DD33", "U+DD34", "U+DD35", "U+DD36", "U+DD3A", "U+DD3C", "U+DD3D",
        "U+DD3F", "U+DD40", "U+DD41", "U+DD42", "U+DD43", "U+DD44", "U+DD45",
        "U+DD47", "U+DD90", "U+DD91", "U+DD95", "U+DD97", "U+DDD9", "U+DEF3",
        "U+DEF4", "U+DF00", "U+DF01", "U+DF36", "U+DF37", "U+DF38", "U+DF39",
        "U+DF3A", "U+DF40", "U+DF42", "U+DF5A"}>>,
     <<"U+D80D",
       {"U+DC30", "U+DC31", "U+DC32", "U+DC33", "U+DC34", "U+DC35", "U+DC36",
        "U+DC37", "U+DC38", "U+DC39", "U+DC3A", "U+DC3B", "U+DC3C", "U+DC3D",
        "U+DC3E", "U+DC3F", "U+DC40", "U+DC47", "U+DC48", "U+DC49", "U+DC4A",
        "U+DC4B", "U+DC4C", "U+DC4D", "U+DC4E", "U+DC4F", "U+DC50", "U+DC51",
        "U+DC52", "U+DC53", "U+DC54", "U+DC55"}>>,
     <<"U+D818",
       {"U+DD1E", "U+DD1F", "U+DD20", "U+DD21", "U+DD22", "U+DD23", "U+DD24",
        "U+DD25", "U+DD26", "U+DD27", "U+DD28", "U+DD29", "U+DD2D", "U+DD2E",
        "U+DD2F"}>>,
     <<"U+D81A",
       {"U+DEF0", "U+DEF1", "U+DEF2", "U+DEF3", "U+DEF4", "U+DF30", "U+DF31",
        "U+DF32", "U+DF33", "U+DF34", "U+DF35", "U+DF36", "U+DF40", "U+DF41",
        "U+DF42", "U+DF43"}>>,
     <<"U+D81B",
       {"U+DD40", "U+DD41", "U+DD42", "U+DD6B", "U+DD6C", "U+DF4F", "U+DF8F",
        "U+DF90", "U+DF91", "U+DF92", "U+DF93", "U+DF94", "U+DF95", "U+DF96",
        "U+DF97", "U+DF98", "U+DF99", "U+DF9A", "U+DF9B", "U+DF9C", "U+DF9D",
        "U+DF9E", "U+DF9F", "U+DFE0", "U+DFE1", "U+DFE3", "U+DFE4", "U+DFF2",
        "U+DFF3"}>>,
     <<"U+D82B",
       {"U+DFF0", "U+DFF1", "U+DFF2", "U+DFF3", "U+DFF5", "U+DFF6", "U+DFF7",
        "U+DFF8", "U+DFF9", "U+DFFA", "U+DFFB", "U+DFFD", "U+DFFE"}>>,
     <<"U+D82F",
       {"U+DC9D", "U+DC9E", "U+DCA0", "U+DCA1", "U+DCA2", "U+DCA3"}>>,
     <<"U+D833",
       {"U+DF00", "U+DF01", "U+DF02", "U+DF03", "U+DF04", "U+DF05", "U+DF06",
        "U+DF07", "U+DF08", "U+DF09", "U+DF0A", "U+DF0B", "U+DF0C", "U+DF0D",
        "U+DF0E", "U+DF0F", "U+DF10", "U+DF11", "U+DF12", "U+DF13", "U+DF14",
        "U+DF15", "U+DF16", "U+DF17", "U+DF18", "U+DF19", "U+DF1A", "U+DF1B",
        "U+DF1C", "U+DF1D", "U+DF1E", "U+DF1F", "U+DF20", "U+DF21", "U+DF22",
        "U+DF23", "U+DF24", "U+DF25", "U+DF26", "U+DF27", "U+DF28", "U+DF29",
        "U+DF2A", "U+DF2B", "U+DF2C", "U+DF2D", "U+DF30", "U+DF31", "U+DF32",
        "U+DF33", "U+DF34", "U+DF35", "U+DF36", "U+DF37", "U+DF38", "U+DF39",
        "U+DF3A", "U+DF3B", "U+DF3C", "U+DF3D", "U+DF3E", "U+DF3F", "U+DF40",
        "U+DF41", "U+DF42", "U+DF43", "U+DF44", "U+DF45", "U+DF46"}>>,
     <<"U+D834",
       {"U+DD67", "U+DD68", "U+DD69", "U+DD73", "U+DD74", "U+DD75", "U+DD76",
        "U+DD77", "U+DD78", "U+DD79", "U+DD7A", "U+DD7B", "U+DD7C", "U+DD7D",
        "U+DD7E", "U+DD7F", "U+DD80", "U+DD81", "U+DD82", "U+DD85", "U+DD86",
        "U+DD87", "U+DD88", "U+DD89", "U+DD8A", "U+DD8B", "U+DDAA", "U+DDAB",
        "U+DDAC", "U+DDAD", "U+DE42", "U+DE43", "U+DE44"}>>,
     <<"U+D836",
       {"U+DE00", "U+DE01", "U+DE02", "U+DE03", "U+DE04", "U+DE05", "U+DE06",
        "U+DE07", "U+DE08", "U+DE09", "U+DE0A", "U+DE0B", "U+DE0C", "U+DE0D",
        "U+DE0E", "U+DE0F", "U+DE10", "U+DE11", "U+DE12", "U+DE13", "U+DE14",
        "U+DE15", "U+DE16", "U+DE17", "U+DE18", "U+DE19", "U+DE1A", "U+DE1B",
        "U+DE1C", "U+DE1D", "U+DE1E", "U+DE1F", "U+DE20", "U+DE21", "U+DE22",
        "U+DE23", "U+DE24", "U+DE25", "U+DE26", "U+DE27", "U+DE28", "U+DE29",
        "U+DE2A", "U+DE2B", "U+DE2C", "U+DE2D", "U+DE2E", "U+DE2F", "U+DE30",
        "U+DE31", "U+DE32", "U+DE33", "U+DE34", "U+DE35", "U+DE36", "U+DE3B",
        "U+DE3C", "U+DE3D", "U+DE3E", "U+DE3F", "U+DE40", "U+DE41", "U+DE42",
        "U+DE43", "U+DE44", "U+DE45", "U+DE46", "U+DE47", "U+DE48", "U+DE49",
        "U+DE4A", "U+DE4B", "U+DE4C", "U+DE4D", "U+DE4E", "U+DE4F", "U+DE50",
        "U+DE51", "U+DE52", "U+DE53", "U+DE54", "U+DE55", "U+DE56", "U+DE57",
        "U+DE58", "U+DE59", "U+DE5A", "U+DE5B", "U+DE5C", "U+DE5D", "U+DE5E",
        "U+DE5F", "U+DE60", "U+DE61", "U+DE62", "U+DE63", "U+DE64", "U+DE65",
        "U+DE66", "U+DE67", "U+DE68", "U+DE69", "U+DE6A", "U+DE6B", "U+DE6C",
        "U+DE75", "U+DE84", "U+DE9B", "U+DE9C", "U+DE9D", "U+DE9E", "U+DE9F",
        "U+DEA1", "U+DEA2", "U+DEA3", "U+DEA4", "U+DEA5", "U+DEA6", "U+DEA7",
        "U+DEA8", "U+DEA9", "U+DEAA", "U+DEAB", "U+DEAC", "U+DEAD", "U+DEAE",
        "U+DEAF"}>>,
     <<"U+D838",
       {"U+DC00", "U+DC01", "U+DC02", "U+DC03", "U+DC04", "U+DC05", "U+DC06",
        "U+DC08", "U+DC09", "U+DC0A", "U+DC0B", "U+DC0C", "U+DC0D", "U+DC0E",
        "U+DC0F", "U+DC10", "U+DC11", "U+DC12", "U+DC13", "U+DC14", "U+DC15",
        "U+DC16", "U+DC17", "U+DC18", "U+DC1B", "U+DC1C", "U+DC1D", "U+DC1E",
        "U+DC1F", "U+DC20", "U+DC21", "U+DC23", "U+DC24", "U+DC26", "U+DC27",
        "U+DC28", "U+DC29", "U+DC2A", "U+DC30", "U+DC31", "U+DC32", "U+DC33",
        "U+DC34", "U+DC35", "U+DC36", "U+DC37", "U+DC38", "U+DC39", "U+DC3A",
        "U+DC3B", "U+DC3C", "U+DC3D", "U+DC3E", "U+DC3F", "U+DC40", "U+DC41",
        "U+DC42", "U+DC43", "U+DC44", "U+DC45", "U+DC46", "U+DC47", "U+DC48",
        "U+DC49", "U+DC4A", "U+DC4B", "U+DC4C", "U+DC4D", "U+DC4E", "U+DC4F",
        "U+DC50", "U+DC51", "U+DC52", "U+DC53", "U+DC54", "U+DC55", "U+DC56",
        "U+DC57", "U+DC58", "U+DC59", "U+DC5A", "U+DC5B", "U+DC5C", "U+DC5D",
        "U+DC5E", "U+DC5F", "U+DC60", "U+DC61", "U+DC62", "U+DC63", "U+DC64",
        "U+DC65", "U+DC66", "U+DC67", "U+DC68", "U+DC69", "U+DC6A", "U+DC6B",
        "U+DC6C", "U+DC6D", "U+DC8F", "U+DD30", "U+DD31", "U+DD32", "U+DD33",
        "U+DD34", "U+DD35", "U+DD36", "U+DD37", "U+DD38", "U+DD39", "U+DD3A",
        "U+DD3B", "U+DD3C", "U+DD3D", "U+DEAE", "U+DEEC", "U+DEED", "U+DEEE",
        "U+DEEF"}>>,
     <<"U+D839",
       {"U+DCEB", "U+DCEC", "U+DCED", "U+DCEE", "U+DCEF", "U+DDEE", "U+DDEF",
        "U+DEE3", "U+DEE6", "U+DEEE", "U+DEEF", "U+DEF5", "U+DEFF"}>>,
     <<"U+D83A",
       {"U+DCD0", "U+DCD1", "U+DCD2", "U+DCD3", "U+DCD4", "U+DCD5", "U+DCD6",
        "U+DD44", "U+DD45", "U+DD46", "U+DD47", "U+DD48", "U+DD49", "U+DD4A",
        "U+DD4B"}>>,
     <<"U+D83C",
       {"U+DFFB", "U+DFFC", "U+DFFD", "U+DFFE", "U+DFFF"}>>,
     <<"U+DB40",
       {"U+DC01", "U+DC20", "U+DC21", "U+DC22", "U+DC23", "U+DC24", "U+DC25",
        "U+DC26", "U+DC27", "U+DC28", "U+DC29", "U+DC2A", "U+DC2B", "U+DC2C",
        "U+DC2D", "U+DC2E", "U+DC2F", "U+DC30", "U+DC31", "U+DC32", "U+DC33",
        "U+DC34", "U+DC35", "U+DC36", "U+DC37", "U+DC38", "U+DC39", "U+DC3A",
        "U+DC3B", "U+DC3C", "U+DC3D", "U+DC3E", "U+DC3F", "U+DC40", "U+DC41",
        "U+DC42", "U+DC43", "U+DC44", "U+DC45", "U+DC46", "U+DC47", "U+DC48",
        "U+DC49", "U+DC4A", "U+DC4B", "U+DC4C", "U+DC4D", "U+DC4E", "U+DC4F",
        "U+DC50", "U+DC51", "U+DC52", "U+DC53", "U+DC54", "U+DC55", "U+DC56",
        "U+DC57", "U+DC58", "U+DC59", "U+DC5A", "U+DC5B", "U+DC5C", "U+DC5D",
        "U+DC5E", "U+DC5F", "U+DC60", "U+DC61", "U+DC62", "U+DC63", "U+DC64",
        "U+DC65", "U+DC66", "U+DC67", "U+DC68", "U+DC69", "U+DC6A", "U+DC6B",
        "U+DC6C", "U+DC6D", "U+DC6E", "U+DC6F", "U+DC70", "U+DC71", "U+DC72",
        "U+DC73", "U+DC74", "U+DC75", "U+DC76", "U+DC77", "U+DC78", "U+DC79",
        "U+DC7A", "U+DC7B", "U+DC7C", "U+DC7D", "U+DC7E", "U+DC7F", "U+DD00",
        "U+DD01", "U+DD02", "U+DD03", "U+DD04", "U+DD05", "U+DD06", "U+DD07",
        "U+DD08", "U+DD09", "U+DD0A", "U+DD0B", "U+DD0C", "U+DD0D", "U+DD0E",
        "U+DD0F", "U+DD10", "U+DD11", "U+DD12", "U+DD13", "U+DD14", "U+DD15",
        "U+DD16", "U+DD17", "U+DD18", "U+DD19", "U+DD1A", "U+DD1B", "U+DD1C",
        "U+DD1D", "U+DD1E", "U+DD1F", "U+DD20", "U+DD21", "U+DD22", "U+DD23",
        "U+DD24", "U+DD25", "U+DD26", "U+DD27", "U+DD28", "U+DD29", "U+DD2A",
        "U+DD2B", "U+DD2C", "U+DD2D", "U+DD2E", "U+DD2F", "U+DD30", "U+DD31",
        "U+DD32", "U+DD33", "U+DD34", "U+DD35", "U+DD36", "U+DD37", "U+DD38",
        "U+DD39", "U+DD3A", "U+DD3B", "U+DD3C", "U+DD3D", "U+DD3E", "U+DD3F",
        "U+DD40", "U+DD41", "U+DD42", "U+DD43", "U+DD44", "U+DD45", "U+DD46",
        "U+DD47", "U+DD48", "U+DD49", "U+DD4A", "U+DD4B", "U+DD4C", "U+DD4D",
        "U+DD4E", "U+DD4F", "U+DD50", "U+DD51", "U+DD52", "U+DD53", "U+DD54",
        "U+DD55", "U+DD56", "U+DD57", "U+DD58", "U+DD59", "U+DD5A", "U+DD5B",
        "U+DD5C", "U+DD5D", "U+DD5E", "U+DD5F", "U+DD60", "U+DD61", "U+DD62",
        "U+DD63", "U+DD64", "U+DD65", "U+DD66", "U+DD67", "U+DD68", "U+DD69",
        "U+DD6A", "U+DD6B", "U+DD6C", "U+DD6D", "U+DD6E", "U+DD6F", "U+DD70",
        "U+DD71", "U+DD72", "U+DD73", "U+DD74", "U+DD75", "U+DD76", "U+DD77",
        "U+DD78", "U+DD79", "U+DD7A", "U+DD7B", "U+DD7C", "U+DD7D", "U+DD7E",
        "U+DD7F", "U+DD80", "U+DD81", "U+DD82", "U+DD83", "U+DD84", "U+DD85",
        "U+DD86", "U+DD87", "U+DD88", "U+DD89", "U+DD8A", "U+DD8B", "U+DD8C",
        "U+DD8D", "U+DD8E", "U+DD8F", "U+DD90", "U+DD91", "U+DD92", "U+DD93",
        "U+DD94", "U+DD95", "U+DD96", "U+DD97", "U+DD98", "U+DD99", "U+DD9A",
        "U+DD9B", "U+DD9C", "U+DD9D", "U+DD9E", "U+DD9F", "U+DDA0", "U+DDA1",
        "U+DDA2", "U+DDA3", "U+DDA4", "U+DDA5", "U+DDA6", "U+DDA7", "U+DDA8",
        "U+DDA9", "U+DDAA", "U+DDAB", "U+DDAC", "U+DDAD", "U+DDAE", "U+DDAF",
        "U+DDB0", "U+DDB1", "U+DDB2", "U+DDB3", "U+DDB4", "U+DDB5", "U+DDB6",
        "U+DDB7", "U+DDB8", "U+DDB9", "U+DDBA", "U+DDBB", "U+DDBC", "U+DDBD",
        "U+DDBE", "U+DDBF", "U+DDC0", "U+DDC1", "U+DDC2", "U+DDC3", "U+DDC4",
        "U+DDC5", "U+DDC6", "U+DDC7", "U+DDC8", "U+DDC9", "U+DDCA", "U+DDCB",
        "U+DDCC", "U+DDCD", "U+DDCE", "U+DDCF", "U+DDD0", "U+DDD1", "U+DDD2",
        "U+DDD3", "U+DDD4", "U+DDD5", "U+DDD6", "U+DDD7", "U+DDD8", "U+DDD9",
        "U+DDDA", "U+DDDB", "U+DDDC", "U+DDDD", "U+DDDE", "U+DDDF", "U+DDE0",
        "U+DDE1", "U+DDE2", "U+DDE3", "U+DDE4", "U+DDE5", "U+DDE6", "U+DDE7",
        "U+DDE8", "U+DDE9", "U+DDEA", "U+DDEB", "U+DDEC", "U+DDED", "U+DDEE",
        "U+DDEF"}>>}

UpperLetterSet == {UpperLetters[i] : i \in 1..Len(UpperLetters)}

LowerTable ==
    [c \in UpperLetterSet |->
        LowerLetters[CHOOSE i \in 1..Len(UpperLetters) : UpperLetters[i] = c]]

\* the lower case of one code unit that keeps its length and does not depend
\* on its neighbours
LowerChar(c) ==
    IF \E i \in 1..Len(UpperCase) : UpperCase[i] = c
    THEN LowerCase[CHOOSE i \in 1..Len(UpperCase) : UpperCase[i] = c]
    ELSE IF c \in UpperLetterSet THEN LowerTable[c]
    ELSE c

\* the lower case of one character: the capital I with a dot, U+0130, becomes
\* an i and the combining dot U+0307
LowerChars(c) == IF c = "U+0130" THEN <<"i", "U+0307">> ELSE <<LowerChar(c)>>

\* the surrogate pair h, l is in a table of pairs
InPairs(t, h, l) == \E p \in t : p[1] = h /\ l \in p[2]

\* going left from position j over the Case_Ignorable characters, the first
\* other character is Cased
RECURSIVE PrecededByCased(_, _)
PrecededByCased(s, j) ==
    IF j < 1 THEN FALSE
    ELSE IF j > 1 /\ InPairs(CaseIgnorableSupplementary, s[j - 1], s[j])
    THEN PrecededByCased(s, j - 2)
    ELSE IF j > 1 /\ InPairs(CasedSupplementary, s[j - 1], s[j]) THEN TRUE
    ELSE IF s[j] \in CaseIgnorable THEN PrecededByCased(s, j - 1)
    ELSE s[j] \in Cased

\* the same going right from position j
RECURSIVE FollowedByCased(_, _)
FollowedByCased(s, j) ==
    IF j > Len(s) THEN FALSE
    ELSE IF j < Len(s) /\ InPairs(CaseIgnorableSupplementary, s[j], s[j + 1])
    THEN FollowedByCased(s, j + 2)
    ELSE IF j < Len(s) /\ InPairs(CasedSupplementary, s[j], s[j + 1]) THEN TRUE
    ELSE IF s[j] \in CaseIgnorable THEN FollowedByCased(s, j + 1)
    ELSE s[j] \in Cased

\* the capital sigma at position i ends a word: a cased letter before it and
\* none after it (the condition Final_Sigma of Unicode)
FinalSigma(s, i) == PrecededByCased(s, i - 1) /\ ~FollowedByCased(s, i + 1)

HighSurrogates == {p[1] : p \in UpperSupplementary}

IsUpperPair(h, l) == \E p \in UpperSupplementary : p[1] = h /\ p[2] = l

LowerSurrogate(h, l) ==
    (CHOOSE p \in UpperSupplementary : p[1] = h /\ p[2] = l)[3]

\* the characters whose lower case depends on more than the code unit
ContextLetters == {"U+0130", "U+03A3"} \cup HighSurrogates

RECURSIVE LowerFrom(_, _)
LowerFrom(s, i) ==
    IF i > Len(s) THEN <<>>
    ELSE IF s[i] = "U+03A3"
    THEN <<IF FinalSigma(s, i) THEN "U+03C2" ELSE "U+03C3">>
         \o LowerFrom(s, i + 1)
    ELSE IF i < Len(s) /\ IsUpperPair(s[i], s[i + 1])
    THEN <<s[i], LowerSurrogate(s[i], s[i + 1])>> \o LowerFrom(s, i + 2)
    ELSE LowerChars(s[i]) \o LowerFrom(s, i + 1)

toLowerCase(s) ==
    IF \E i \in 1..Len(s) : s[i] \in ContextLetters THEN LowerFrom(s, 1)
    ELSE [i \in 1..Len(s) |-> LowerChar(s[i])]

RECURSIVE TrimStart(_)
TrimStart(s) ==
    IF s = <<>> THEN s
    ELSE IF IsSpace(Head(s)) THEN TrimStart(Tail(s)) ELSE s

RECURSIVE TrimEnd(_)
TrimEnd(s) ==
    IF s = <<>> THEN s
    ELSE IF IsSpace(s[Len(s)]) THEN TrimEnd(SubSeq(s, 1, Len(s) - 1)) ELSE s

trim(s) == TrimEnd(TrimStart(s))

DigitChars == <<"0", "1", "2", "3", "4", "5", "6", "7", "8", "9">>

\* decimal text of a natural number, as a template literal prints it
RECURSIVE NumberText(_)
NumberText(i) ==
    IF i < 10 THEN <<DigitChars[i + 1]>>
    ELSE NumberText(i \div 10) \o <<DigitChars[(i % 10) + 1]>>

\* `Category ${index + 1}` for a zero-based index
CategoryName(i) == <<"C", "a", "t", "e", "g", "o", "r", "y", " ">> \o NumberText(i + 1)

\* SPECIAL_CHAR_PATTERN.test(s)
HasSpecialChar(s) == \E i \in 1..Len(s) : s[i] \in SPECIAL_CHARS

(***************************************************************************)
(* Diagnostics.                                                            *)
(***************************************************************************)
\* an error or warning; field "-" and index -1 stand for an absent field or index
Diag(type, field, i) == [type |-> type, field |-> field, index |-> i]

(***************************************************************************)
(* validateDataPointName(name, index, seenNames).  i is zero-based.  The   *)
(* Set passed in is mutated by the code; the model returns it as seen.     *)
(***************************************************************************)
validateDataPointName(name, i, seen) ==
    IF Falsy(name) \/ ~IsStringType(name)
    THEN [processedName |-> CategoryName(i),
          errors |-> <<Diag("INVALID_DATA_TYPE", "name", i)>>,
          warnings |-> <<>>,
          seen |-> seen]
    ELSE LET trimmed == trim(name.s)
             empty == Len(trimmed) = 0
             processedName == IF empty THEN CategoryName(i) ELSE trimmed
             dup == toLowerCase(processedName) \in seen
         IN [processedName |-> processedName,
             errors |-> IF dup THEN <<Diag("DUPLICATE_NAMES", "name", i)>> ELSE <<>>,
             warnings |->
                 (IF empty THEN <<Diag("EMPTY_NAME", "name", i)>> ELSE <<>>)
                 \o (IF Len(processedName) > MAX_NAME_LENGTH
                     THEN <<Diag("LONG_NAME", "name", i)>> ELSE <<>>)
                 \o (IF HasSpecialChar(processedName)
                     THEN <<Diag("SPECIAL_CHARACTERS", "name", i)>> ELSE <<>>),
             seen |-> IF dup THEN seen ELSE seen \cup {toLowerCase(processedName)}]

\* the shape of validateDataPointValue with its four decisions as parameters:
\* is the value rejected, is it clamped from below, from above, and whether a
\* clamp from above is reported
ValueValidation(value, i, maxV, minV, rejected, below, above, reportAbove) ==
    IF rejected
    THEN [processedValue |-> Num(0),
          errors |-> <<Diag("INVALID_DATA_TYPE", "value", i)>>,
          warnings |-> <<>>]
    ELSE IF below
    THEN [processedValue |-> minV,
          errors |-> <<>>,
          warnings |-> <<Diag("DATA_CLAMPED", "value", i)>>]
    ELSE IF above
    THEN [processedValue |-> maxV,
          errors |-> <<>>,
          warnings |-> IF reportAbove THEN <<Diag("DATA_CLAMPED", "value", i)>> ELSE <<>>]
    ELSE [processedValue |-> value, errors |-> <<>>, warnings |-> <<>>]

\* validateDataPointValue without the clamp from above
validateDataPointValue_NoUpperClamp(value, i, maxV, minV) ==
    ValueValidation(value, i, maxV, minV,
                    ~IsNumberType(value) \/ IsNaN(value), NumLt(value, minV), FALSE, TRUE)

\* validateDataPointValue without the isNaN test
validateDataPointValue_NaNPasses(value, i, maxV, minV) ==
    ValueValidation(value, i, maxV, minV,
                    ~IsNumberType(value), NumLt(value, minV), NumGt(value, maxV), TRUE)

\* validateDataPointValue clamping from above without a warning
validateDataPointValue_SilentClamp(value, i, maxV, minV) ==
    ValueValidation(value, i, maxV, minV,
                    ~IsNumberType(value) \/ IsNaN(value), NumLt(value, minV),
                    NumGt(value, maxV), FALSE)

\* validateDataPointValue testing value >= maxValue instead of value > maxValue
validateDataPointValue_InclusiveUpper(value, i, maxV, minV) ==
    ValueValidation(value, i, maxV, minV,
                    ~IsNumberType(value) \/ IsNaN(value), NumLt(value, minV),
                    ~IsNaN(maxV) /\ ~NumLt(value, maxV), TRUE)

(***************************************************************************)
(* validateDataPointValue(value, index, maxValue, minValue).               *)
(***************************************************************************)
validateDataPointValue(value, i, maxV, minV) ==
    IF value.t \in {"undefined", "null"}
    THEN [processedValue |-> Num(0),
          errors |-> <<Diag("INVALID_DATA_TYPE", "value", i)>>,
          warnings |-> <<>>]
    ELSE IF ~IsNumberType(value) \/ IsNaN(value)
    THEN [processedValue |-> Num(0),
          errors |-> <<Diag("INVALID_DATA_TYPE", "value", i)>>,
          warnings |-> <<>>]
    ELSE IF NumLt(value, minV)
    THEN [processedValue |-> minV,
          errors |-> <<>>,
          warnings |-> <<Diag("DATA_CLAMPED", "value", i)>>]
    ELSE IF NumGt(value, maxV)
    THEN [processedValue |-> maxV,
          errors |-> <<>>,
          warnings |-> <<Diag("DATA_CLAMPED", "value", i)>>]
    ELSE [processedValue |-> value, errors |-> <<>>, warnings |-> <<>>]

(***************************************************************************)
(* validateRadarChartData(dataPoints, maxValue = 5, minValue = 0).         *)
(* The argument is [kind, items]: kind "array" carries the elements, any   *)
(* other kind is a value that is not an array.  An element is              *)
(* [kind, name, value]: kind "object" carries the two fields, "null" and   *)
(* "number" are elements that are not objects.                             *)
(***************************************************************************)
Point(name, value) == [kind |-> "object", name |-> name, value |-> value]

NonObject(kind) == [kind |-> kind, name |-> Undefined, value |-> Undefined]

ArrayOf(items) == [kind |-> "array", items |-> items]

NonArray(kind) == [kind |-> kind, items |-> <<>>]

UndefinedData == [defined |-> FALSE, items |-> <<>>]

DefinedData(items) == [defined |-> TRUE, items |-> items]

\* the test !dataPoints alone, without Array.isArray
IsMissing_OnlyFalsy(arg) == arg.kind \in {"null", "undefined"}

\* !dataPoints || !Array.isArray(dataPoints)
IsMissing(arg) == arg.kind # "array"

\* !point || typeof point !== "object"
IsNotObject(point) == point.kind # "object"

\* the error for an element that is not an object, its index left out
NotObjectError_NoIndex(i) == Diag("INVALID_DATA_TYPE", "-", -1)

\* the error pushed for an element that is not an object
NotObjectError(i) == Diag("INVALID_DATA_TYPE", "-", i)

\* unshift in place of push
PushPoint_Front(list, name, value) == <<[name |-> name, value |-> value]>> \o list

\* processedData.push({name, value})
PushPoint(list, name, value) == Append(list, [name |-> name, value |-> value])

\* nameValidation.processedName && !isNaN(valueValidation.processedValue)
Usable(nameValidation, valueValidation) ==
    /\ Len(nameValidation.processedName) > 0
    /\ ~IsNaN(valueValidation.processedValue)

\* the early return of a structural failure
EarlyResult(type) ==
    [isValid |-> FALSE,
     errors |-> <<Diag(type, "-", -1)>>,
     warnings |-> <<>>,
     processedData |-> UndefinedData]

\* the returned object carrying processedData whatever isValid is
FinalResult_KeepsData(errs, warns, processed) ==
    LET allErrors == IF Len(processed) = 0
                     THEN Append(errs, Diag("EMPTY_VALUES", "-", -1))
                     ELSE errs
    IN [isValid |-> Len(allErrors) = 0 /\ Len(processed) > 0,
        errors |-> allErrors,
        warnings |-> warns,
        processedData |-> DefinedData(processed)]

\* the returned object without the check for an empty processedData
FinalResult_NoEmptyCheck(errs, warns, processed) ==
    LET isValid == Len(errs) = 0 /\ Len(processed) > 0
    IN [isValid |-> isValid,
        errors |-> errs,
        warnings |-> warns,
        processedData |-> IF isValid THEN DefinedData(processed) ELSE UndefinedData]

\* the final validation and the returned object
FinalResult(errs, warns, processed) ==
    LET allErrors == IF Len(processed) = 0
                     THEN Append(errs, Diag("EMPTY_VALUES", "-", -1))
                     ELSE errs
        isValid == Len(allErrors) = 0 /\ Len(processed) > 0
    IN [isValid |-> isValid,
        errors |-> allErrors,
        warnings |-> warns,
        processedData |-> IF isValid THEN DefinedData(processed) ELSE UndefinedData]

NoResult ==
    [isValid |-> FALSE, errors |-> <<>>, warnings |-> <<>>, processedData |-> UndefinedData]

(***************************************************************************)
(* Inputs.                                                                 *)
(***************************************************************************)
LongSpecialName ==
    <<"<", "x", "x", "x", "x", "x", "x", "x", "x", "x", "x",
      "x", "x", "x", "x", "x", "x", "x", "x", "x", ">">>

NameInputs ==
    {Null, Num(42), Str(<<>>), Str(<<" ">>), Str(<<"A">>), Str(<<"\r", "a", "U+00A0">>),
     Str(CategoryName(0)), Str(toLowerCase(CategoryName(1))), Str(LongSpecialName),
     Str(<<"A", "U+03A3">>), Str(<<"A", "U+03C3">>)}

ValueInputs ==
    {Undefined, Null, Str(<<"3">>), NaN, PosInf, NegInf, Num(-1), Num(1), Num(MaxInput)}

PointInputs ==
    {Point(n, Num(1)) : n \in NameInputs}
    \cup {Point(n, v) : n \in {Null, Str(<<"A">>), Str(<<"\r", "a", "U+00A0">>)}, v \in ValueInputs}
    \cup {NonObject("null"), NonObject("number")}

\* <<maxValue, minValue>>: the defaults, a smaller maximum, a negative maximum,
\* a negative minimum and a minimum above the maximum
RangeInputs == {<<5, 0>>, <<2, 0>>, <<-1, 0>>, <<5, -2>>, <<2, 3>>}

ArgInputs ==
    {NonArray("null"), NonArray("undefined"), NonArray("object")}
    \cup {ArrayOf(items) : items \in UNION {[1..n -> PointInputs] : n \in 0..MaxLen}}

(***************************************************************************)
(* Numbers of the chart geometry (useChartCalculations): the double        *)
(* precision numbers of IEEE 754, which are the numbers of JavaScript.  A  *)
(* number is [k, s, e, hi, lo]: k its kind ("fin", "nan", "pinf", "ninf"), *)
(* s its sign (1 or -1) and, for a finite number, its magnitude            *)
(* (hi * 2^28 + lo) * 2^e.  The 53 bits hi * 2^28 + lo begin with a 1,     *)
(* except for zero and the subnormal numbers, whose e is the least one.    *)
(* Every operation rounds its exact result to the nearest number, to the   *)
(* even one of two equally near.                                           *)
(***************************************************************************)
TwoTo14 == 2 ^ 14

TwoTo28 == 2 ^ 28

MinExponent == 0 - 1074

MaxExponent == 1023 - 52

Double(s, e, hi, lo) == [k |-> "fin", s |-> s, e |-> e, hi |-> hi, lo |-> lo]

GZero(s) == Double(s, MinExponent, 0, 0)

GNaN == [k |-> "nan", s |-> 1, e |-> 0, hi |-> 0, lo |-> 0]

GPosInf == [k |-> "pinf", s |-> 1, e |-> 0, hi |-> 0, lo |-> 0]

GNegInf == [k |-> "ninf", s |-> -1, e |-> 0, hi |-> 0, lo |-> 0]

Abs(i) == IF i < 0 THEN 0 - i ELSE i

Sign(i) == IF i < 0 THEN -1 ELSE IF i > 0 THEN 1 ELSE 0

IsZero(a) == a.k = "fin" /\ a.hi = 0 /\ a.lo = 0

\* the sign of a number that is not NaN: 1, -1, or 0 for a zero
GSign(a) == IF IsZero(a) THEN 0 ELSE a.s

GInfinite(a) == a.k \in {"pinf", "ninf"}

GOfSign(sg) == IF sg < 0 THEN GNegInf ELSE GPosInf

\* the number of bits of a natural
RECURSIVE BitLength(_)
BitLength(x) == IF x = 0 THEN 0 ELSE 1 + BitLength(x \div 2)

\* the number of bits of hi * 2^28 + lo
BitLength56(hi, lo) == IF hi # 0 THEN 28 + BitLength(hi) ELSE BitLength(lo)

\* (hi * 2^28 + lo) * 2^n as <<hi, lo>>, for a product below 2^56
ShiftLeft(hi, lo, n) ==
    IF n >= 28 THEN <<lo * (2 ^ (n - 28)), 0>>
    ELSE LET p == 2 ^ (28 - n)
         IN <<hi * (2 ^ n) + (lo \div p), (lo % p) * (2 ^ n)>>

\* x with its last bit set when sticky: the bits shifted out were not all 0
Jam(x, sticky) == IF sticky /\ x % 2 = 0 THEN x + 1 ELSE x

\* (hi * 2^28 + lo) / 2^n as <<hi, lo>>, the bits shifted out kept in the last
\* bit
ShiftRightJam(hi, lo, n) ==
    IF n = 0 THEN <<hi, lo>>
    ELSE IF n < 28
    THEN LET p == 2 ^ n
         IN <<hi \div p,
              Jam((lo \div p) + (hi % p) * (2 ^ (28 - n)), lo % p # 0)>>
    ELSE IF n < 56
    THEN LET p == 2 ^ (n - 28)
         IN <<0, Jam(hi \div p, lo # 0 \/ hi % p # 0)>>
    ELSE <<0, IF hi # 0 \/ lo # 0 THEN 1 ELSE 0>>

\* twice hi * 2^28 + lo, by halves
TwiceHi(hi, lo) == 2 * hi + ((2 * lo) \div TwoTo28)

TwiceLo(lo) == (2 * lo) % TwoTo28

\* hi * 2^28 + lo less bhi * 2^28 + blo, by halves
LessHi(hi, lo, bhi, blo) == hi - bhi - (IF lo < blo THEN 1 ELSE 0)

LessLo(lo, blo) == lo - blo + (IF lo < blo THEN TwoTo28 ELSE 0)

\* the 53 bits <<hi, lo>> with the exponent e as a number: an infinity when
\* e is too large, hi = 2^25 after a carry out of the 53 bits
Packed(s, e, hi, lo) ==
    IF hi = 2 ^ 25
    THEN (IF e + 1 > MaxExponent THEN GOfSign(s)
          ELSE Double(s, e + 1, 2 ^ 24, 0))
    ELSE IF e > MaxExponent THEN GOfSign(s)
    ELSE IF hi = 0 /\ lo = 0 THEN GZero(s)
    ELSE Double(s, e, hi, lo)

\* the carry of lo, which may be 2^28, into hi
CarryHalves(s, e, hi, lo) == Packed(s, e, hi + (lo \div TwoTo28), lo % TwoTo28)

\* the 53 bits <<hi, lo>> rounded by the three bits rest: upwards when they
\* are more than half, or half and the 53 bits odd
RoundHalves(s, e, hi, lo, rest) ==
    CarryHalves(s, e, hi,
                IF rest > 4 \/ (rest = 4 /\ lo % 2 = 1) THEN lo + 1 ELSE lo)

\* the 56 bits v rounded to 53
RoundWord(s, e, v) ==
    RoundHalves(s, e, v[1] \div 8, (v[2] \div 8) + (v[1] % 8) * (2 ^ 25), v[2] % 8)

\* the number nearest to w * 2^(e - 3), for the 56 bits w = <<hi, lo>>: 53
\* bits and three more to round by, the last of them jammed.  w begins with
\* a 1 unless e is the least exponent
RoundPack(s, e, w) ==
    RoundWord(s, IF e < MinExponent THEN MinExponent ELSE e,
              IF e < MinExponent THEN ShiftRightJam(w[1], w[2], MinExponent - e)
              ELSE w)

\* the same for 57 bits hi * 2^28 + lo, hi up to 2^29
RoundWide(s, e, hi, lo) ==
    RoundPack(s, IF hi >= TwoTo28 THEN e + 1 ELSE e,
              IF hi >= TwoTo28 THEN ShiftRightJam(hi, lo, 1) ELSE <<hi, lo>>)

\* the halves w with the sign s and the exponent e
Halves(s, e, w) == Double(s, e, w[1], w[2])

\* (hi * 2^28 + lo) * 2^e written with its bits n places to the left
Scaled(s, e, hi, lo, n) == Halves(s, e - n, ShiftLeft(hi, lo, n))

\* a finite number that is not zero with its 53 bits beginning with a 1, the
\* exponent of a subnormal number going below the least one
Normal(a) ==
    IF a.hi >= 2 ^ 24 THEN a
    ELSE Scaled(a.s, a.e, a.hi, a.lo, 53 - BitLength56(a.hi, a.lo))

\* the integer i as a number
GInt(i) ==
    IF i = 0 THEN GZero(1)
    ELSE Scaled(Sign(i), 0, 0, Abs(i), 53 - BitLength(Abs(i)))

\* |a| < |b| for finite numbers
MagnitudeLt(a, b) ==
    \/ a.e < b.e
    \/ a.e = b.e /\ (a.hi < b.hi \/ (a.hi = b.hi /\ a.lo < b.lo))

\* the 53 bits of a and three bits 0
Wide(a) == ShiftLeft(a.hi, a.lo, 3)

\* w / 2^n, jammed
ShiftedWord(w, n) == ShiftRightJam(w[1], w[2], n)

\* wa + wb, rounded
AddWords(s, e, wa, wb) ==
    RoundWide(s, e, wa[1] + wb[1] + ((wa[2] + wb[2]) \div TwoTo28),
              (wa[2] + wb[2]) % TwoTo28)

\* |a| + |b| with the sign of a, for finite numbers with |a| >= |b| > 0
AddMagnitudes(a, b) ==
    AddWords(a.s, a.e, Wide(a), ShiftedWord(Wide(b), a.e - b.e))

\* (hi * 2^28 + lo) * 2^(e - 3) with its bits n places to the left, rounded
SubShifted(s, e, hi, lo, n) == RoundPack(s, e - n, ShiftLeft(hi, lo, n))

\* the difference hi * 2^28 + lo moved to the left until it has 56 bits or
\* the exponent is the least one
SubHalves(s, e, hi, lo) ==
    SubShifted(s, e, hi, lo,
               IF 56 - BitLength56(hi, lo) < e - MinExponent
               THEN 56 - BitLength56(hi, lo) ELSE e - MinExponent)

\* wa - wb, rounded
SubWords(s, e, wa, wb) ==
    SubHalves(s, e, LessHi(wa[1], wa[2], wb[1], wb[2]), LessLo(wa[2], wb[2]))

\* |a| - |b| with the sign of a, for finite numbers with |a| > |b| > 0
SubMagnitudes(a, b) ==
    SubWords(a.s, a.e, Wide(a), ShiftedWord(Wide(b), a.e - b.e))

\* a + b for finite numbers that are not zero, |a| >= |b|, and |a| > |b| when
\* the signs differ
AddFinite(a, b) ==
    IF a.s = b.s THEN AddMagnitudes(a, b) ELSE SubMagnitudes(a, b)

\* a + b
GAdd(a, b) ==
    IF a.k = "nan" \/ b.k = "nan" THEN GNaN
    ELSE IF GInfinite(a) /\ GInfinite(b) THEN (IF a.k = b.k THEN a ELSE GNaN)
    ELSE IF GInfinite(a) THEN a
    ELSE IF GInfinite(b) THEN b
    ELSE IF IsZero(a) /\ IsZero(b)
    THEN GZero(IF a.s = -1 /\ b.s = -1 THEN -1 ELSE 1)
    ELSE IF IsZero(a) THEN b
    ELSE IF IsZero(b) THEN a
    ELSE IF a.s # b.s /\ ~MagnitudeLt(a, b) /\ ~MagnitudeLt(b, a) THEN GZero(1)
    ELSE AddFinite(IF MagnitudeLt(a, b) THEN b ELSE a,
                   IF MagnitudeLt(a, b) THEN a ELSE b)

\* -a
GNeg(a) ==
    IF a.k = "pinf" THEN GNegInf
    ELSE IF a.k = "ninf" THEN GPosInf
    ELSE IF a.k = "nan" THEN GNaN
    ELSE [a EXCEPT !.s = 0 - a.s]

\* a - b
GSub(a, b) == GAdd(a, GNeg(b))

\* the 53 bits of a by parts of 14 bits, the least part first
Parts(a) ==
    <<a.lo % TwoTo14, a.lo \div TwoTo14, a.hi % TwoTo14, a.hi \div TwoTo14>>

\* the products of the parts p and q, summed by their place
Columns(p, q) ==
    <<p[1] * q[1],
      p[1] * q[2] + p[2] * q[1],
      p[1] * q[3] + p[2] * q[2] + p[3] * q[1],
      p[1] * q[4] + p[2] * q[3] + p[3] * q[2] + p[4] * q[1],
      p[2] * q[4] + p[3] * q[3] + p[4] * q[2],
      p[3] * q[4] + p[4] * q[3],
      p[4] * q[4]>>

\* the sums c as parts of 14 bits, each carry going to the next place and
\* the last carry making one more part
RECURSIVE Carried(_, _)
Carried(c, carry) ==
    IF c = <<>> THEN <<carry>>
    ELSE <<(c[1] + carry) % TwoTo14>>
         \o Carried(Tail(c), (c[1] + carry) \div TwoTo14)

\* the 106 bits p of a product, parts of 14 bits, cut to 56 bits and rounded
MulParts(s, e, p) ==
    RoundWide(s, e, (p[6] \div 128) + (p[7] + p[8] * TwoTo14) * 128,
              Jam((p[4] \div 128) + p[5] * 128 + (p[6] % 128) * (2 ^ 21),
                  p[1] # 0 \/ p[2] # 0 \/ p[3] # 0 \/ p[4] % 128 # 0))

\* a * b for normal numbers
MulNormal(a, b) ==
    MulParts(a.s * b.s, a.e + b.e + 52,
             Carried(Columns(Parts(a), Parts(b)), 0))

\* x * y for finite numbers that are not zero: the 106 bits of the product
\* of the two 53 bits, by parts of 14 bits, cut to 56 bits
MulFinite(x, y) == MulNormal(Normal(x), Normal(y))

\* a * b
GMul(a, b) ==
    IF a.k = "nan" \/ b.k = "nan" THEN GNaN
    ELSE IF GInfinite(a) \/ GInfinite(b)
    THEN (IF GSign(a) * GSign(b) = 0 THEN GNaN ELSE GOfSign(a.s * b.s))
    ELSE IF IsZero(a) \/ IsZero(b) THEN GZero(a.s * b.s)
    ELSE MulFinite(a, b)

\* the 56 bits of the quotient of the long division by b, bit by bit: q the
\* bits found so far, r the remainder, below b; the next bit is 1 when b goes
\* into twice the remainder; the last bit is jammed
RECURSIVE DivideBits(_, _, _, _, _, _)
DivideBits(rhi, rlo, bhi, blo, qhi, qlo) ==
    IF qhi >= 2 ^ 27 THEN <<qhi, Jam(qlo, rhi # 0 \/ rlo # 0)>>
    ELSE IF TwiceHi(rhi, rlo) > bhi
            \/ (TwiceHi(rhi, rlo) = bhi /\ TwiceLo(rlo) >= blo)
    THEN DivideBits(LessHi(TwiceHi(rhi, rlo), TwiceLo(rlo), bhi, blo),
                    LessLo(TwiceLo(rlo), blo), bhi, blo,
                    TwiceHi(qhi, qlo), TwiceLo(qlo) + 1)
    ELSE DivideBits(TwiceHi(rhi, rlo), TwiceLo(rlo), bhi, blo,
                    TwiceHi(qhi, qlo), TwiceLo(qlo))

\* the 56 bits of the quotient of hi * 2^28 + lo, not below b and below 2 b,
\* by b: the first bit is a 1
DivideFirst(s, e, hi, lo, b) ==
    RoundPack(s, e,
              DivideBits(LessHi(hi, lo, b.hi, b.lo), LessLo(lo, b.lo),
                         b.hi, b.lo, 0, 1))

\* a / b for normal numbers, by the long division bit by bit: of a by b, or
\* of 2 a by b when the bits of a are below those of b
DivideLong(a, b) ==
    IF a.hi < b.hi \/ (a.hi = b.hi /\ a.lo < b.lo)
    THEN DivideFirst(a.s * b.s, a.e - b.e - 53,
                     TwiceHi(a.hi, a.lo), TwiceLo(a.lo), b)
    ELSE DivideFirst(a.s * b.s, a.e - b.e - 52, a.hi, a.lo, b)

\* the parts p of 53 bits, the least first, as the parts of these bits times
\* 8 and a part of zeros, the highest first
Numerator(p) ==
    <<p[4] * 8 + (p[3] \div (2 ^ 11)),
      (p[3] % (2 ^ 11)) * 8 + (p[2] \div (2 ^ 11)),
      (p[2] % (2 ^ 11)) * 8 + (p[1] \div (2 ^ 11)),
      (p[1] % (2 ^ 11)) * 8,
      0>>

\* the long division of the parts p, after the remainder r, by d: the parts
\* of the quotient and then the remainder
RECURSIVE ShortQuotient(_, _, _)
ShortQuotient(p, d, r) ==
    IF p = <<>> THEN <<r>>
    ELSE <<(r * TwoTo14 + p[1]) \div d>>
         \o ShortQuotient(Tail(p), d, (r * TwoTo14 + p[1]) % d)

\* the quotient q of ShortQuotient, rounded
ShortPacked(s, e, q) ==
    RoundWide(s, e, q[1] * TwoTo28 + q[2] * TwoTo14 + q[3],
              Jam(q[4] * TwoTo14 + q[5], q[6] # 0))

\* a / b for normal numbers when the 53 bits of b are 14 bits and zeros (b is
\* a small integer times a power of two): the long division of the bits of
\* a by these 14 bits, by parts of 14 bits
DivideShort(a, b) ==
    ShortPacked(a.s * b.s, a.e - b.e - 53,
                ShortQuotient(Numerator(Parts(a)), b.hi \div (2 ^ 11), 0))

\* a / b for normal numbers
DivNormal(a, b) ==
    IF b.lo = 0 /\ b.hi % (2 ^ 11) = 0 THEN DivideShort(a, b)
    ELSE DivideLong(a, b)

\* x / y for finite numbers that are not zero
DivFinite(x, y) == DivNormal(Normal(x), Normal(y))

\* a / b; a zero divisor gives NaN for 0 / 0 and an infinity otherwise
GDiv(a, b) ==
    IF a.k = "nan" \/ b.k = "nan" THEN GNaN
    ELSE IF GInfinite(a) THEN (IF GInfinite(b) THEN GNaN ELSE GOfSign(a.s * b.s))
    ELSE IF GInfinite(b) THEN GZero(a.s * b.s)
    ELSE IF IsZero(b) THEN (IF IsZero(a) THEN GNaN ELSE GOfSign(a.s * b.s))
    ELSE IF IsZero(a) THEN GZero(a.s * b.s)
    ELSE DivFinite(a, b)

\* the number nearest to m millionths: what a decimal literal of the source
\* with up to six decimals is read as
G(m) == GDiv(GInt(m), GInt(1000000))

\* a < b
GLt(a, b) ==
    /\ a.k # "nan" /\ b.k # "nan"
    /\ \/ /\ a.k = "fin" /\ b.k = "fin"
          /\ ~(IsZero(a) /\ IsZero(b))
          /\ \/ a.s < b.s
             \/ a.s = 1 /\ b.s = 1 /\ MagnitudeLt(a, b)
             \/ a.s = -1 /\ b.s = -1 /\ MagnitudeLt(b, a)
       \/ a.k = "ninf" /\ b.k # "ninf"
       \/ a.k # "pinf" /\ b.k = "pinf"

\* Math.min(a, b): of the two zeros the negative one
GMin(a, b) ==
    IF a.k = "nan" \/ b.k = "nan" THEN GNaN
    ELSE IF GLt(b, a) THEN b
    ELSE IF GLt(a, b) THEN a
    ELSE IF IsZero(a) /\ b.s = -1 THEN b
    ELSE a

\* Math.max(a, b): of the two zeros the positive one
GMax(a, b) ==
    IF a.k = "nan" \/ b.k = "nan" THEN GNaN
    ELSE IF GLt(a, b) THEN b
    ELSE IF GLt(b, a) THEN a
    ELSE IF IsZero(a) /\ b.s = 1 THEN b
    ELSE a

\* a number of the validator as a number of the geometry
GOfNum(v) ==
    IF v.k = "fin" THEN GInt(v.n)
    ELSE IF v.k = "nan" THEN GNaN
    ELSE IF v.k = "pinf" THEN GPosInf ELSE GNegInf

\* the naturals of any size, as the sequence of their parts of 14 bits, the
\* least part first
BigLimb(b, i) == IF i >= 1 /\ i <= Len(b) THEN b[i] ELSE 0

\* b * m + carry for a small m
RECURSIVE BigTimes(_, _, _)
BigTimes(b, m, carry) ==
    IF b = <<>> THEN (IF carry = 0 THEN <<>> ELSE <<carry>>)
    ELSE <<(b[1] * m + carry) % TwoTo14>>
         \o BigTimes(Tail(b), m, (b[1] * m + carry) \div TwoTo14)

\* b + carry
RECURSIVE BigPlus(_, _)
BigPlus(b, carry) ==
    IF carry = 0 THEN b
    ELSE IF b = <<>> THEN <<carry>>
    ELSE <<(b[1] + carry) % TwoTo14>>
         \o BigPlus(Tail(b), (b[1] + carry) \div TwoTo14)

\* b / 2^n without its fraction
BigShiftRight(b, n) ==
    LET parts == n \div 14
        bits == n % 14
    IN SubSeq([i \in 1..(IF Len(b) > parts THEN Len(b) - parts ELSE 0) |->
                  (b[i + parts] \div (2 ^ bits))
                  + (BigLimb(b, i + parts + 1) % (2 ^ bits)) * (2 ^ (14 - bits))],
              1, IF Len(b) > parts THEN Len(b) - parts ELSE 0)

\* bit n of b, bit 0 the least
BigBit(b, n) == (BigLimb(b, (n \div 14) + 1) \div (2 ^ (n % 14))) % 2

\* b * 2^n
BigShiftLeft(b, n) ==
    LET parts == n \div 14
        bits == n % 14
    IN SubSeq([i \in 1..(Len(b) + parts + 1) |->
                  (BigLimb(b, i - parts) % (2 ^ (14 - bits))) * (2 ^ bits)
                  + (BigLimb(b, i - parts - 1) \div (2 ^ (14 - bits)))],
              1, Len(b) + parts + 1)

\* b without its leading parts that are 0
RECURSIVE BigTrim(_)
BigTrim(b) ==
    IF b # <<>> /\ b[Len(b)] = 0 THEN BigTrim(SubSeq(b, 1, Len(b) - 1)) ELSE b

\* (r * 2^(14 * Len(b)) + b) / 10^4 without its fraction, from the highest
\* part
RECURSIVE BigOverMyriad(_, _)
BigOverMyriad(b, r) ==
    IF b = <<>> THEN <<>>
    ELSE IF r = 0 /\ b[Len(b)] = 0 THEN BigOverMyriad(SubSeq(b, 1, Len(b) - 1), 0) \o <<0>>
    ELSE BigOverMyriad(SubSeq(b, 1, Len(b) - 1), (r * TwoTo14 + b[Len(b)]) % 10000)
         \o <<(r * TwoTo14 + b[Len(b)]) \div 10000>>

\* (r * 2^(14 * Len(b)) + b) % 10^4
RECURSIVE BigModMyriad(_, _)
BigModMyriad(b, r) ==
    IF b = <<>> THEN r
    ELSE IF r = 0 /\ b[Len(b)] = 0 THEN BigModMyriad(SubSeq(b, 1, Len(b) - 1), 0)
    ELSE BigModMyriad(SubSeq(b, 1, Len(b) - 1), (r * TwoTo14 + b[Len(b)]) % 10000)

\* the four decimal digits of n < 10^4
FourDigits(n) == <<n \div 1000, (n \div 100) % 10, (n \div 10) % 10, n % 10>>

\* the decimal digits of b in fours, the highest first, with zeros before them
RECURSIVE BigFours(_)
BigFours(b) ==
    IF b = <<>> THEN <<>>
    ELSE BigFours(BigTrim(BigOverMyriad(b, 0))) \o FourDigits(BigModMyriad(b, 0))

\* the place of the first digit of d that is not 0, Len(d) + 1 without one
DecFirst(d) ==
    IF \A i \in 1..Len(d) : d[i] = 0 THEN Len(d) + 1
    ELSE CHOOSE i \in 1..Len(d) : d[i] # 0 /\ \A j \in 1..(i - 1) : d[j] = 0

\* digits without the zeros before them
DecTrim(d) == SubSeq(d, DecFirst(d), Len(d))

\* the decimal digits of b as numbers, the highest first, none for 0
BigDigits(b) == DecTrim(BigFours(b))

\* digits as characters
DigitText(d) == [i \in 1..Len(d) |-> DigitChars[d[i] + 1]]

\* the decimal digits of b, none for 0
BigText(b) == DigitText(BigDigits(b))

\* t / 2^(-e) rounded to the nearest integer, upwards when half way, or
\* t * 2^e
HundredthsOf(t, e) ==
    IF e >= 0 THEN BigShiftLeft(t, e)
    ELSE BigPlus(BigShiftRight(t, 0 - e), BigBit(t, (0 - e) - 1))

\* the integer n with n / 100 nearest to |a|, the larger of two equally near:
\* |a| * 100 + 1 / 2 without its fraction, computed without rounding
Hundredths(a) == HundredthsOf(BigTimes(Parts(a), 100, 0), a.e)

\* (high * 2^28 + low) / 2^(n + 28) rounded to the nearest integer, upwards
\* when half way
SmallScaled(high, low, n) ==
    IF n = 0 THEN high + (low \div (2 ^ 27))
    ELSE IF n > 30 THEN 0
    ELSE (high \div (2 ^ n)) + ((high \div (2 ^ (n - 1))) % 2)

\* the 53 bits of a times 25, from the products c0 and c1 of its two lowest
\* parts of 14 bits
SmallSum(a, c0, c1) ==
    SmallScaled(a.hi * 25 + (c1 \div TwoTo14),
                (c1 % TwoTo14) * TwoTo14 + (c0 % TwoTo14), (0 - a.e) - 30)

SmallCarry(a, c0) == SmallSum(a, c0, (a.lo \div TwoTo14) * 25 + (c0 \div TwoTo14))

\* the same integer for |a| < 2^23, where it is below 2^30: |a| * 100 is the
\* 53 bits of a times 25, divided by 2^(-e - 2)
SmallHundredths(a) == SmallCarry(a, (a.lo % TwoTo14) * 25)

\* n hundredths in digits
SmallFixed(n) ==
    NumberText(n \div 100)
    \o <<".", DigitChars[((n \div 10) % 10) + 1], DigitChars[(n % 10) + 1]>>

\* the digits of a number of hundredths with a point before the last two
BigFixed(digits) ==
    SubSeq(digits, 1, Len(digits) - 2) \o <<".">>
    \o SubSeq(digits, Len(digits) - 1, Len(digits))

\* a < b for two naturals in digits without zeros before them
DecLessTrimmed(a, b) ==
    \/ Len(a) < Len(b)
    \/ /\ Len(a) = Len(b)
       /\ \E i \in 1..Len(a) : a[i] < b[i] /\ \A j \in 1..(i - 1) : a[j] = b[j]

\* a < b for two naturals in digits
DecLess(a, b) == DecLessTrimmed(DecTrim(a), DecTrim(b))

\* the digit of d that counts 10^i
DecDigit(d, i) == IF i < Len(d) THEN d[Len(d) - i] ELSE 0

\* the digits of a + b from the one that counts 10^i on
RECURSIVE DecSum(_, _, _, _)
DecSum(a, b, i, carry) ==
    IF carry = 0 /\ i >= Len(a) /\ i >= Len(b) THEN <<>>
    ELSE DecSum(a, b, i + 1, (DecDigit(a, i) + DecDigit(b, i) + carry) \div 10)
         \o <<(DecDigit(a, i) + DecDigit(b, i) + carry) % 10>>

\* a + b, without zeros before it
DecPlus(a, b) == DecTrim(DecSum(a, b, 0, 0))

\* the place of the last digit of d that is not 0, 0 without one
DecLast(d) ==
    IF \A i \in 1..Len(d) : d[i] = 0 THEN 0
    ELSE CHOOSE i \in 1..Len(d) : d[i] # 0 /\ \A j \in (i + 1)..Len(d) : d[j] = 0

\* 10^Len(r) - r for r # 0 whose last digit that is not 0 is at last
DecBelowTen(r, last) ==
    DecTrim([i \in 1..Len(r) |->
                IF i < last THEN 9 - r[i] ELSE IF i = last THEN 10 - r[i] ELSE 0])

\* 10^m
DecTenTo(m) == [i \in 1..(m + 1) |-> IF i = 1 THEN 1 ELSE 0]

\* 10^Len(r) - r, the distance from the rest r up to the next decimal
DecToNext(r) == IF DecLast(r) = 0 THEN DecTenTo(Len(r)) ELSE DecBelowTen(r, DecLast(r))

\* r against half of 10^Len(r): -1 below it, 0 equal to it, 1 above it
DecHalfSide(r) ==
    IF r[1] < 5 THEN -1
    ELSE IF r[1] = 5 /\ DecLast(r) = 1 THEN 0
    ELSE 1

\* Number::toString for digits d1 d2 ... dk and the exponent n: d1.d2...dke+n
ExponentText(digits, n) ==
    <<DigitChars[digits[1] + 1]>>
    \o (IF Len(digits) > 1 THEN <<".">> \o DigitText(Tail(digits)) ELSE <<>>)
    \o <<"e", "+">> \o NumberText(n)

\* the first k digits of d
DecPrefix(d, k) == SubSeq(d, 1, k)

\* the digits after the first k of d, the rest of d after cutting
DecRest(d, k) == SubSeq(d, k + 1, Len(d))

\* the text of the digits d cut after k digits and rounded down
RoundedDown(d, k) == ExponentText(DecPrefix(d, k), Len(d) - 1)

\* the text of the digits that one more in the last place gives: 9 becomes 10,
\* one digit with the next exponent
CarriedUp(d, up, k) ==
    IF Len(up) > k THEN ExponentText(<<1>>, Len(d)) ELSE ExponentText(up, Len(d) - 1)

\* the text of the digits d cut after k digits and rounded up
RoundedUp(d, k) == CarriedUp(d, DecPlus(DecPrefix(d, k), <<1>>), k)

\* both roundings of d after k digits read back as the number: the nearer
\* one, the even one of two equally near; side is the rest against the half
NearerText(d, k, side) ==
    IF side < 0 \/ (side = 0 /\ d[k] % 2 = 0) THEN RoundedDown(d, k)
    ELSE RoundedUp(d, k)

\* the distance r is within the half distance h to the neighbour, or at it for
\* a number whose last bit is 0
ReadsBack(r, h, even) == IF even THEN ~DecLess(h, r) ELSE DecLess(r, h)

RECURSIVE ShortestText(_, _, _, _, _)

\* the choice at k digits, down and up saying which roundings read back
ShortestAt(d, below, above, even, k, down, up) ==
    IF down /\ up THEN NearerText(d, k, DecHalfSide(DecRest(d, k)))
    ELSE IF down THEN RoundedDown(d, k)
    ELSE IF up THEN RoundedUp(d, k)
    ELSE ShortestText(d, below, above, even, k + 1)

\* Number::toString of an integer of 22 digits and more: the fewest digits,
\* k of them and more, that read back as the same number.  d are the digits
\* of the number, below and above half the distance to the number before it
\* and after it, even says that its last bit is 0, so that a decimal half
\* way to a neighbour reads back as it
ShortestText(d, below, above, even, k) ==
    ShortestAt(d, below, above, even, k,
               ReadsBack(DecRest(d, k), below, even),
               ReadsBack(DecToNext(DecRest(d, k)), above, even))

\* half the distance from a to the number below it, for a.e >= 2
HalfBelow(a) ==
    BigDigits(BigTrim(BigShiftLeft(<<1>>, IF a.hi = 2 ^ 24 /\ a.lo = 0
                                         THEN a.e - 2 ELSE a.e - 1)))

\* half the distance from a to the number above it, for a.e >= 1
HalfAbove(a) == BigDigits(BigTrim(BigShiftLeft(<<1>>, a.e - 1)))

\* the text of an integer from its digits d: below 10^21 the digits and two
\* zeros after the point, from 10^21 on ToString(x), in exponent notation
IntegerText(a, d) ==
    IF Len(d) < 22 THEN DigitText(d) \o <<".", "0", "0">>
    ELSE ShortestText(d, HalfBelow(a), HalfAbove(a), a.lo % 2 = 0, 1)

\* the digits of x.toFixed(2) without the sign
FixedText(a) ==
    IF a.e <= 0 - 30 THEN SmallFixed(SmallHundredths(a))
    ELSE IF a.e >= 17 THEN IntegerText(a, BigDigits(BigTrim(BigShiftLeft(Parts(a), a.e))))
    ELSE BigFixed(BigText(BigTrim(Hundredths(a))))

\* x.toFixed(2): the sign of a number below zero, then for |x| < 10^21 the
\* integer part, a point and two digits, and for |x| >= 10^21 ToString(|x|)
toFixed2(a) ==
    IF a.k = "nan" THEN <<"N", "a", "N">>
    ELSE IF a.k = "pinf" THEN <<"I", "n", "f", "i", "n", "i", "t", "y">>
    ELSE IF a.k = "ninf" THEN <<"-", "I", "n", "f", "i", "n", "i", "t", "y">>
    ELSE (IF a.s = -1 /\ ~IsZero(a) THEN <<"-">> ELSE <<>>) \o FixedText(a)

(***************************************************************************)
(* Math.cos and Math.sin.  The language leaves their values to the engine: *)
(* these are the routines of the engine of Node 20 (V8 11.3,               *)
(* src/base/ieee754.cc, after fdlibm): the reduction of the argument by    *)
(* multiples of pi / 2 and the two polynomials on [-pi / 4, pi / 4], every *)
(* operation rounded as the code's.                                        *)
(***************************************************************************)
\* the operations of the routines by their names: the sum, the difference
\* and the product of two numbers, the reduction of a by multiples of
\* pi / 2, and the cosine and the sine of a, which are computed with these
RECURSIVE MathOp(_, _, _)

\* the high word of |a|: the exponent field and the first 20 bits after the
\* leading one
HighWord(a) ==
    IF a.hi >= 2 ^ 24 THEN (a.e + 1075) * (2 ^ 20) + ((a.hi - 2 ^ 24) \div 16)
    ELSE a.hi \div 16

\* the exponent field of a
ExponentBits(a) == HighWord(a) \div (2 ^ 20)

\* the number of the high word h, its low word 0
OfHighWord(h) ==
    Double(1, (h \div (2 ^ 20)) - 1075, 2 ^ 24 + (h % (2 ^ 20)) * 16, 0)

\* 2^n
TwoTo(n) == Double(1, n - 52, 2 ^ 24, 0)

\* (hi * 2^28 + lo) / 2^n without its fraction, for a quotient below 2^31
WholeBits(hi, lo, n) ==
    IF n >= 53 THEN 0
    ELSE IF n >= 28 THEN hi \div (2 ^ (n - 28))
    ELSE hi * (2 ^ (28 - n)) + (lo \div (2 ^ n))

\* (int) a: the integer a is cut to, for |a| < 2^31
ToInt(a) == a.s * WholeBits(a.hi, a.lo, 0 - a.e)

\* a without its fraction
Truncated(a) ==
    IF a.e >= 0 THEN a
    ELSE IF a.e <= 0 - 53 THEN GZero(a.s)
    ELSE IF a.e <= 0 - 28
    THEN Double(a.s, a.e, (a.hi \div (2 ^ (0 - a.e - 28))) * (2 ^ (0 - a.e - 28)), 0)
    ELSE Double(a.s, a.e, a.hi, (a.lo \div (2 ^ (0 - a.e))) * (2 ^ (0 - a.e)))

\* floor(a)
GFloor(a) ==
    IF a.s = -1 /\ Truncated(a) # a THEN MathOp("-", Truncated(a), GInt(1))
    ELSE Truncated(a)

\* c[1] + z * (c[2] + z * (... + z * c[n]))
RECURSIVE Horner(_, _)
Horner(z, c) ==
    IF Len(c) = 1 THEN c[1]
    ELSE MathOp("+", c[1], MathOp("*", z, Horner(z, Tail(c))))

\* C1 .. C6 of __kernel_cos
CosC ==
  <<Double(1, 0 - 57, 22369621, 89478476),
    Double(0 - 1, 0 - 62, 23860929, 113332599),
    Double(1, 0 - 68, 27269633, 164304272),
    Double(0 - 1, 0 - 74, 19391736, 10244781),
    Double(1, 0 - 81, 18803179, 229945796),
    Double(0 - 1, 0 - 89, 26193563, 243808468)>>

\* S1 .. S6 of __kernel_sin
SinS ==
  <<Double(0 - 1, 0 - 55, 22369621, 89478473),
    Double(1, 0 - 59, 17895697, 17889446),
    Double(0 - 1, 0 - 65, 27269633, 163668437),
    Double(1, 0 - 71, 24239669, 129105533),
    Double(0 - 1, 0 - 78, 28204648, 170630379),
    Double(1, 0 - 85, 22909861, 181392764)>>

invpio2 == Double(1, 0 - 53, 21361414, 231327875)

pio2_1 == Double(1, 0 - 52, 26353589, 71303168)

pio2_1t == Double(1, 0 - 86, 17516049, 174220081)

pio2_2 == Double(1, 0 - 86, 17516049, 174063616)

pio2_2t == Double(1, 0 - 121, 20027554, 235106419)

pio2_3 == Double(1, 0 - 121, 20027554, 234881024)

pio2_3t == Double(1, 0 - 156, 28850594, 86002113)

\* the high words of n * pi / 2, n = 1 .. 32
npio2_hw ==
  <<1073291771, 1074340347, 1074977148, 1075388923, 1075800698, 1076025724,
    1076231611, 1076437499, 1076643386, 1076849274, 1076971356, 1077074300,
    1077177244, 1077280187, 1077383131, 1077486075, 1077589019, 1077691962,
    1077794906, 1077897850, 1077968460, 1078019932, 1078071404, 1078122876,
    1078174348, 1078225820, 1078277292, 1078328763, 1078380235, 1078431707,
    1078483179, 1078534651>>

\* the bits of 2 / pi after the point, by 24 bits
two_over_pi ==
  <<10680707, 7228996, 1387004, 2578385, 16069853, 12639074,
    9804092, 4427841, 16666979, 11263675, 12935607, 2387514,
    4345298, 14681673, 3074569, 13734428, 16653803, 1880361,
    10960616, 8533493, 3062596, 8710556, 7349940, 6258241,
    3772886, 3769171, 3798172, 8675211, 12450088, 3874808,
    9961438, 366607, 15675153, 9132554, 7151469, 3571407,
    2607881, 12013382, 4155038, 6285869, 7677882, 13102053,
    15825725, 473591, 9065106, 15363067, 6271263, 9264392,
    5636912, 4652155, 7056368, 13614112, 10155062, 1944035,
    9527646, 15080200, 6658437, 6231200, 6832269, 16767104,
    5075751, 3212806, 1398474, 7579849, 6349435, 12618859>>

\* the bits of pi / 2, by 24 bits
PIo2 ==
  <<Double(1, 0 - 52, 26353588, 0),
    Double(1, 0 - 76, 21250768, 0),
    Double(1, 0 - 100, 25454984, 0),
    Double(1, 0 - 124, 26002710, 0),
    Double(1, 0 - 148, 16889912, 0),
    Double(1, 0 - 172, 27415044, 0),
    Double(1, 0 - 197, 20455976, 0),
    Double(1, 0 - 221, 27210192, 0)>>

init_jk == <<2, 3, 4, 6>>

\* jk, and jp, of the precision 2 (53 bits)
jk == init_jk[3]

half == TwoTo(0 - 1)

two24 == TwoTo(24)

twon24 == TwoTo(0 - 24)

\* __kernel_cos(x, y): the cosine of x + y on [-pi / 4, pi / 4], y the tail
\* of x
CosTail(x, y, z, r) == MathOp("-", MathOp("*", z, r), MathOp("*", x, y))

CosNear(x, y, z, r) ==
    MathOp("-", GInt(1), MathOp("-", MathOp("*", half, z), CosTail(x, y, z, r)))

CosFar(x, y, z, r, qx) ==
    MathOp("-", MathOp("-", GInt(1), qx),
           MathOp("-", MathOp("-", MathOp("*", half, z), qx),
                  CosTail(x, y, z, r)))

\* qx: 0.28125 for |x| > 0.78125, else x / 4 with its low word 0
CosQx(ix) ==
    IF ix > 1072234496 THEN OfHighWord(1070727168)
    ELSE OfHighWord(ix - 2097152)

\* the branch at |x| < 0.3
CosWith(x, y, ix, z, r) ==
    IF ix < 1070805811 THEN CosNear(x, y, z, r)
    ELSE CosFar(x, y, z, r, CosQx(ix))

CosSquared(x, y, ix, z) == CosWith(x, y, ix, z, MathOp("*", z, Horner(z, CosC)))

kernel_cos(x, y) ==
    IF HighWord(x) < 1044381696 /\ ToInt(x) = 0 THEN GInt(1)
    ELSE CosSquared(x, y, HighWord(x), MathOp("*", x, x))

\* __kernel_sin(x, y, iy): the sine of x + y on [-pi / 4, pi / 4]; iy = 0
\* says that y is 0
SinWith(x, y, iy, z, v, r) ==
    IF iy = 0
    THEN MathOp("+", x,
                MathOp("*", v, MathOp("+", SinS[1], MathOp("*", z, r))))
    ELSE MathOp("-", x,
                MathOp("-",
                       MathOp("-",
                              MathOp("*", z,
                                     MathOp("-", MathOp("*", half, y),
                                            MathOp("*", v, r))),
                              y),
                       MathOp("*", v, SinS[1])))

SinSquared(x, y, iy, z) ==
    SinWith(x, y, iy, z, MathOp("*", z, x), Horner(z, Tail(SinS)))

kernel_sin(x, y, iy) ==
    IF HighWord(x) < 1044381696 /\ ToInt(x) = 0 THEN x
    ELSE SinSquared(x, y, iy, MathOp("*", x, x))

\* the sum fw += x[j] * f[jx + i - j] of __kernel_rem_pio2 for j = 0 .. jx,
\* f[i] the part jv - jx + i of 2 / pi, 0 before the first part
PiPart(jv, jx, i) ==
    IF jv - jx + i < 0 THEN GZero(1) ELSE GInt(two_over_pi[jv - jx + i + 1])

RECURSIVE Products(_, _, _, _, _, _)
Products(x, jv, jx, i, j, fw) ==
    IF j > jx THEN fw
    ELSE Products(x, jv, jx, i, j + 1,
                  MathOp("+", fw, MathOp("*", x[j + 1], PiPart(jv, jx, jx + i - j))))

\* q[0] .. q[jz]
Quotients(x, jv, jx, jz) ==
    SubSeq([i \in 1..(jz + 1) |-> Products(x, jv, jx, i - 1, 0, GZero(1))],
           1, jz + 1)

\* the loop that distills q[] into iq[]: iq[0] .. iq[jz - 1] and then z
\* fw = (double) ((int) (twon24 * z))
Carry(z) == GInt(ToInt(MathOp("*", twon24, z)))

RECURSIVE Distill(_, _, _, _)
Distill(q, j, z, fw) ==
    IF j = 0 THEN <<z>>
    ELSE <<ToInt(MathOp("-", z, MathOp("*", two24, fw)))>>
         \o Distill(q, j - 1, MathOp("+", q[j], fw), Carry(MathOp("+", q[j], fw)))

\* the loop over iq[] of the case ih > 0: 2^24 - iq[i] at the first part
\* that is not 0 and 2^24 - 1 - iq[i] after it, and then the carry
RECURSIVE Complement(_, _)
Complement(iq, carry) ==
    IF iq = <<>> THEN <<carry>>
    ELSE IF carry # 0 THEN <<2 ^ 24 - 1 - iq[1]>> \o Complement(Tail(iq), 1)
    ELSE IF iq[1] # 0 THEN <<2 ^ 24 - iq[1]>> \o Complement(Tail(iq), 1)
    ELSE <<0>> \o Complement(Tail(iq), 0)

\* for (k = 1; jk >= k && iq[jk - k] == 0; k++)
RECURSIVE MoreTerms(_, _)
MoreTerms(iq, k) ==
    IF jk >= k /\ iq[jk - k + 1] = 0 THEN MoreTerms(iq, k + 1) ELSE k

\* while (iq[jz] == 0) jz--
RECURSIVE LastPart(_, _)
LastPart(iq, jz) == IF iq[jz + 1] = 0 THEN LastPart(iq, jz - 1) ELSE jz

\* fq[jz - i]: fw += PIo2[k] * q[i + k] for k = 0 .. min(jp, jz - i)
RECURSIVE PiSum(_, _, _, _)
PiSum(q, i, k, fw) ==
    IF k > jk \/ k > Len(q) - 1 - i THEN fw
    ELSE PiSum(q, i, k + 1, MathOp("+", fw, MathOp("*", PIo2[k + 1], q[i + k + 1])))

\* fw += fq[i] for i = jz .. 0
RECURSIVE SumDown(_, _, _)
SumDown(fq, i, fw) ==
    IF i = 0 THEN fw ELSE SumDown(fq, i - 1, MathOp("+", fw, fq[i]))

\* fw += fq[i] for i = 1 .. jz
RECURSIVE SumUp(_, _, _)
SumUp(fq, i, fw) ==
    IF i > Len(fq) THEN fw ELSE SumUp(fq, i + 1, MathOp("+", fw, fq[i]))

Signed(ih, fw) == IF ih = 0 THEN fw ELSE GNeg(fw)

\* y[0] and y[1] of the precision 2, and n & 7
Paired(n, ih, fq, fw) ==
    [n |-> n % 8,
     y0 |-> Signed(ih, fw),
     y1 |-> Signed(ih, SumUp(fq, 2, MathOp("-", fq[1], fw)))]

Summed(n, ih, fq) == Paired(n, ih, fq, SumDown(fq, Len(fq), GZero(1)))

\* q[i] = 2^q0 * 2^(-24 (jz - i)) * iq[i]
Weighted(iq, q0) ==
    SubSeq([i \in 1..Len(iq) |->
               MathOp("*", TwoTo(q0 - 24 * (Len(iq) - i)), GInt(iq[i]))],
           1, Len(iq))

Fq(q) ==
    SubSeq([m \in 1..Len(q) |-> PiSum(q, Len(q) - m, 0, GZero(1))], 1, Len(q))

\* the end of __kernel_rem_pio2: iq[0] .. iq[jz] to q[], fq[] and y[]
Compose(iq, q0, n, ih) == Summed(n, ih, Fq(Weighted(iq, q0)))

\* z >= two24: two more parts
Broken(c, iq, z, fw) ==
    [iq |-> iq \o <<ToInt(MathOp("-", z, MathOp("*", two24, fw))), ToInt(fw)>>,
     q0 |-> c.q0 + 24]

\* z # 0: z = scalbn(z, -q0) breaks into iq[jz]
Extended(c, iq, z) ==
    IF ~GLt(z, two24) THEN Broken(c, iq, z, Carry(z))
    ELSE [iq |-> Append(iq, ToInt(z)), q0 |-> c.q0]

\* z = 0: the parts that are 0 at the end are left out
Chopped(c, iq, jz) ==
    [iq |-> SubSeq(iq, 1, jz + 1), q0 |-> c.q0 - 24 * (c.jz - jz)]

\* the parts iq[0] .. iq[jz] that q[] is made of, and their q0
Finished(c, iq, z) ==
    IF IsZero(z) THEN Chopped(c, iq, LastPart(iq, c.jz - 1))
    ELSE Extended(c, iq, MathOp("*", z, TwoTo(0 - c.q0)))

Composed(f, n, ih) == Compose(f.iq, f.q0, n, ih)

Assembled(c, iq, n, z, ih) == Composed(Finished(c, iq, z), n, ih)

\* "check if recomputation is needed": z = 0 and iq[jk .. jz - 1] all 0; then
\* k more parts are needed, else y is the result
Settled(c, iq, n, z, ih) ==
    IF IsZero(z) /\ (\A i \in (jk + 1)..c.jz : iq[i] = 0)
    THEN [k |-> MoreTerms(iq, 1)]
    ELSE [k |-> 0, y |-> Assembled(c, iq, n, z, ih)]

\* iq[jz - 1] &= 0x7fffff for q0 = 1 and 0x3fffff for q0 = 2
Masked(c, iq) ==
    IF c.q0 > 0 THEN [iq EXCEPT ![c.jz] = @ % (2 ^ (24 - c.q0))] ELSE iq

\* ih > 0, "q > 0.5": d the parts of Complement and the carry; for
\* ih = 2, z = 1 - z, less 2^q0 with a carry
Negated(c, d, z, ih) ==
    [iq |-> Masked(c, SubSeq(d, 1, c.jz)),
     z |-> IF ih # 2 THEN z
           ELSE IF d[c.jz + 1] # 0
           THEN MathOp("-", MathOp("-", GInt(1), z), TwoTo(c.q0))
           ELSE MathOp("-", GInt(1), z)]

Turned(c, iq, z, ih) ==
    IF ih > 0 THEN Negated(c, Complement(iq, 0), z, ih)
    ELSE [iq |-> iq, z |-> z]

Decided(c, t, n, ih) == Settled(c, t.iq, n, t.z, ih)

\* n += 1 for ih > 0
Upper(c, iq, n, z, ih) ==
    Decided(c, Turned(c, iq, z, ih), IF ih > 0 THEN n + 1 ELSE n, ih)

\* "need iq[jz - 1] to determine n", and ih: for q0 > 0 the bits of
\* iq[jz - 1] above 24 - q0 go to n and the bit below them is ih; for
\* q0 = 0 ih is the bit 23 of iq[jz - 1]; else ih = 2 for z >= 0.5
Halved(c, iq, n, z) ==
    Upper(c,
          IF c.q0 > 0 THEN [iq EXCEPT ![c.jz] = @ % (2 ^ (24 - c.q0))] ELSE iq,
          IF c.q0 > 0 THEN n + (iq[c.jz] \div (2 ^ (24 - c.q0))) ELSE n,
          z,
          IF c.q0 > 0
          THEN (iq[c.jz] % (2 ^ (24 - c.q0))) \div (2 ^ (23 - c.q0))
          ELSE IF c.q0 = 0 THEN iq[c.jz] \div (2 ^ 23)
          ELSE IF ~GLt(z, half) THEN 2 ELSE 0)

\* n = (int) z; z -= (double) n
Whole(c, iq, n, z) == Halved(c, iq, n, MathOp("-", z, GInt(n)))

\* z -= 8.0 * floor(z * 0.125)
Octant(c, iq, z) == Whole(c, iq, ToInt(z), z)

Scaled8(c, iq, z) ==
    Octant(c, iq,
           MathOp("-", z,
                  MathOp("*", GInt(8), GFloor(MathOp("*", z, TwoTo(0 - 3))))))

\* z = scalbn(z, q0)
Distilled(c, d) ==
    Scaled8(c, SubSeq(d, 1, c.jz), MathOp("*", d[c.jz + 1], TwoTo(c.q0)))

Computed(c, q) ==
    Distilled(c, Distill(q, c.jz, q[c.jz + 1], Carry(q[c.jz + 1])))

\* the label recompute of __kernel_rem_pio2, with jz parts
Attempt(c) == Computed(c, Quotients(c.x, c.jv, c.jx, c.jz))

RECURSIVE Recompute(_)

\* r the attempt with c.jz parts: its y, or one more attempt with r.k more
Repeated(c, r) ==
    IF r.k = 0 THEN r.y ELSE Recompute([c EXCEPT !.jz = @ + r.k])

Recompute(c) == Repeated(c, Attempt(c))

\* __kernel_rem_pio2(x, y, e0, nx, 2, two_over_pi): n & 7 and y, for the
\* number x[0] .. x[nx - 1] by parts of 24 bits, 2^e0 the weight of x[0]
PartsFrom(x, e0, jv) ==
    Recompute([x |-> x, jv |-> jv, jx |-> Len(x) - 1,
               q0 |-> e0 - 24 * (jv + 1), jz |-> jk])

kernel_rem_pio2(x, e0) ==
    PartsFrom(x, e0, IF e0 - 3 < 0 THEN 0 ELSE (e0 - 3) \div 24)

\* y[0] = r - w; y[1] = (r - y[0]) - w
Remainder(n, r, w, y0) ==
    [n |-> n, y0 |-> y0, y1 |-> MathOp("-", MathOp("-", r, y0), w)]

\* the case |x| < 3 pi / 4 of __ieee754_rem_pio2, n = 1 or -1: pi / 2 taken
\* from, or added to, x in its two parts p and t
NearTail(n, z, t) == Remainder(n, z, t, MathOp("-", z, t))

NearBy(n, x, p, p2, p2t, pt, ix) ==
    IF ix # 1073291771 THEN NearTail(n, MathOp("-", x, p), pt)
    ELSE NearTail(n, MathOp("-", MathOp("-", x, p), p2), p2t)

NearHalfPi(x, ix) ==
    IF x.s = 1 THEN NearBy(1, x, pio2_1, pio2_2, pio2_2t, pio2_1t, ix)
    ELSE NearBy(0 - 1, x, GNeg(pio2_1), GNeg(pio2_2), GNeg(pio2_2t),
                GNeg(pio2_1t), ix)

\* the second and third iterations of the medium case: r and w for the
\* parts p and pt of pi / 2
Iterated(fn, t, pt, w, r) ==
    <<r, MathOp("-", MathOp("*", fn, pt), MathOp("-", MathOp("-", t, r), w))>>

IteratedBy(fn, t, pt, w) == Iterated(fn, t, pt, w, MathOp("-", t, w))

Iterate(fn, t, p, pt) == IteratedBy(fn, t, pt, MathOp("*", fn, p))

Last(n, rw) == Remainder(n, rw[1], rw[2], MathOp("-", rw[1], rw[2]))

Third(n, fn, j, rw, y0) ==
    IF j - ExponentBits(y0) > 49
    THEN Last(n, Iterate(fn, rw[1], pio2_3, pio2_3t))
    ELSE Remainder(n, rw[1], rw[2], y0)

Second(n, fn, j, rw) == Third(n, fn, j, rw, MathOp("-", rw[1], rw[2]))

First(n, fn, ix, r, w, y0) ==
    IF n < 32 /\ ix # npio2_hw[n] THEN Remainder(n, r, w, y0)
    ELSE IF (ix \div (2 ^ 20)) - ExponentBits(y0) > 16
    THEN Second(n, fn, ix \div (2 ^ 20), Iterate(fn, r, pio2_2, pio2_2t))
    ELSE Remainder(n, r, w, y0)

MediumBy(n, fn, ix, r, w) == First(n, fn, ix, r, w, MathOp("-", r, w))

MediumOf(n, fn, ix, t) ==
    MediumBy(n, fn, ix, MathOp("-", t, MathOp("*", fn, pio2_1)),
             MathOp("*", fn, pio2_1t))

\* the case |x| <= 2^19 * pi / 2 for |x|: n = (int) (t * invpio2 + half)
MediumTo(n, ix, t) == MediumOf(n, GInt(n), ix, t)

Medium(t, ix) == MediumTo(ToInt(MathOp("+", MathOp("*", t, invpio2), half)), ix, t)

\* tx[0], tx[1], tx[2] without the parts 0 at the end
Tx(tx) ==
    IF ~IsZero(tx[3]) THEN tx
    ELSE IF ~IsZero(tx[2]) THEN SubSeq(tx, 1, 2)
    ELSE SubSeq(tx, 1, 1)

TxLast(tx0, z, tx1) == Tx(<<tx0, tx1, MathOp("*", MathOp("-", z, tx1), two24)>>)

TxNext(tx0, z) == TxLast(tx0, z, GInt(ToInt(z)))

TxFirst(z, tx0) == TxNext(tx0, MathOp("*", MathOp("-", z, tx0), two24))

\* the case of the large |x|: z = scalbn(|x|, -e0), by parts of 24 bits
LargeOf(z, e0) == kernel_rem_pio2(TxFirst(z, GInt(ToInt(z))), e0)

Large(x, ix) == LargeOf(Double(1, 0 - 29, x.hi, x.lo), (ix \div (2 ^ 20)) - 1046)

\* y with the sign of x
Mirrored(x, y) ==
    IF x.s = -1 THEN [n |-> 0 - y.n, y0 |-> GNeg(y.y0), y1 |-> GNeg(y.y1)]
    ELSE y

\* __ieee754_rem_pio2(x, y) for a finite x: n and the remainder y[0] + y[1]
\* of x - n * pi / 2
rem_pio2(x, ix) ==
    IF ix <= 1072243195 THEN [n |-> 0, y0 |-> x, y1 |-> GZero(1)]
    ELSE IF ix < 1073928572 THEN NearHalfPi(x, ix)
    ELSE IF ix <= 1094263291 THEN Mirrored(x, Medium([x EXCEPT !.s = 1], ix))
    ELSE Mirrored(x, Large(x, ix))

\* the end of cos(x): by n & 3 the cosine or the sine of y[0] + y[1], with
\* the sign changed for 1 and 2
CosOf(y) ==
    Signed(IF y.n % 4 \in {1, 2} THEN 1 ELSE 0,
           IF y.n % 2 = 0 THEN kernel_cos(y.y0, y.y1)
           ELSE kernel_sin(y.y0, y.y1, 1))

\* the end of sin(x): by n & 3 the sine or the cosine of y[0] + y[1], with
\* the sign changed for 2 and 3; iy = 0 for |x| <= pi / 4
SinOf(y, iy) ==
    Signed(IF y.n % 4 \in {2, 3} THEN 1 ELSE 0,
           IF y.n % 2 = 0 THEN kernel_sin(y.y0, y.y1, iy)
           ELSE kernel_cos(y.y0, y.y1))

\* |x| <= pi / 4: x itself, its tail 0
Direct(x) == [n |-> 0, y0 |-> x, y1 |-> GZero(1)]

\* cos(x) of ieee754.cc
ieee754_cos(x) ==
    IF x.k # "fin" THEN GNaN
    ELSE CosOf(IF HighWord(x) <= 1072243195 THEN Direct(x)
               ELSE MathOp("rem", x, x))

\* sin(x) of ieee754.cc
ieee754_sin(x) ==
    IF x.k # "fin" THEN GNaN
    ELSE SinOf(IF HighWord(x) <= 1072243195 THEN Direct(x)
               ELSE MathOp("rem", x, x),
               IF HighWord(x) <= 1072243195 THEN 0 ELSE 1)

MathOp(op, a, b) ==
    IF op = "+" THEN GAdd(a, b)
    ELSE IF op = "-" THEN GSub(a, b)
    ELSE IF op = "*" THEN GMul(a, b)
    ELSE IF op = "rem" THEN rem_pio2(a, HighWord(a))
    ELSE IF op = "cos" THEN ieee754_cos(a)
    ELSE ieee754_sin(a)

(***************************************************************************)
(* Math.PI, Math.cos and Math.sin.  TrigTable holds the cosine and the     *)
(* sine at the angles spoke * angleStep - Math.PI / 2 of the charts of     *)
(* five to ten spokes, which are the values of ieee754_cos and ieee754_sin *)
(* there; at every other number the two routines are run.                  *)
(***************************************************************************)
MathPI == Double(1, 0 - 51, 26353589, 71576856)

TrigTable == {
    [angle |-> Double(0 - 1, 0 - 52, 26353589, 71576856),
     cos |-> Double(1, 0 - 106, 18506339, 51665927),
     sin |-> Double(0 - 1, 0 - 52, 16777216, 0)],
    [angle |-> Double(0 - 1, 0 - 53, 31624307, 32205136),
     cos |-> Double(1, 0 - 53, 19722800, 74799710),
     sin |-> Double(0 - 1, 0 - 53, 27146105, 194507944)],
    [angle |-> Double(0 - 1, 0 - 53, 29281765, 228660649),
     cos |-> Double(1, 0 - 53, 21568373, 37492253),
     sin |-> Double(0 - 1, 0 - 53, 25704186, 47140921)],
    [angle |-> Double(0 - 1, 0 - 53, 26353589, 71576856),
     cos |-> Double(1, 0 - 53, 23726566, 109001677),
     sin |-> Double(0 - 1, 0 - 53, 23726566, 109001676)],
    [angle |-> Double(0 - 1, 0 - 53, 22588790, 214743280),
     cos |-> Double(1, 0 - 53, 26233911, 84270667),
     sin |-> Double(0 - 1, 0 - 53, 20920846, 42724817)],
    [angle |-> Double(0 - 1, 0 - 53, 17569059, 137196390),
     cos |-> Double(1, 0 - 53, 29058990, 140004522),
     sin |-> Double(0 - 1, 0 - 53, 16777216, 0)],
    [angle |-> Double(0 - 1, 0 - 54, 21082871, 110948576),
     cos |-> Double(1, 0 - 53, 31912161, 54809855),
     sin |-> Double(0 - 1, 0 - 54, 20737779, 120580431)],
    [angle |-> Double(0 - 1, 0 - 55, 23425412, 182928520),
     cos |-> Double(1, 0 - 53, 33044664, 209787927),
     sin |-> Double(0 - 1, 0 - 55, 23306663, 235631498)],
    [angle |-> GZero(1),
     cos |-> Double(1, 0 - 52, 16777216, 0),
     sin |-> GZero(1)],
    [angle |-> Double(1, 0 - 55, 30118387, 196845888),
     cos |-> Double(1, 0 - 53, 32713152, 89713001),
     sin |-> Double(1, 0 - 55, 29866254, 50480514)],
    [angle |-> Double(1, 0 - 54, 21082871, 110948576),
     cos |-> Double(1, 0 - 53, 31912161, 54809855),
     sin |-> Double(1, 0 - 54, 20737779, 120580431)],
    [angle |-> Double(1, 0 - 53, 17569059, 137196388),
     cos |-> Double(1, 0 - 53, 29058990, 140004523),
     sin |-> Double(1, 0 - 54, 33554431, 268435453)],
    [angle |-> Double(1, 0 - 53, 26353589, 71576856),
     cos |-> Double(1, 0 - 53, 23726566, 109001677),
     sin |-> Double(1, 0 - 53, 23726566, 109001676)],
    [angle |-> Double(1, 0 - 53, 31624307, 32205136),
     cos |-> Double(1, 0 - 53, 19722800, 74799710),
     sin |-> Double(1, 0 - 53, 27146105, 194507944)],
    [angle |-> Double(1, 0 - 52, 18823992, 89474248),
     cos |-> Double(1, 0 - 54, 29117444, 225553346),
     sin |-> Double(1, 0 - 53, 30231498, 164322417)],
    [angle |-> Double(1, 0 - 52, 20497236, 25844726),
     cos |-> Double(1, 0 - 54, 22952583, 76155895),
     sin |-> Double(1, 0 - 53, 31530852, 38939931)],
    [angle |-> Double(1, 0 - 52, 26353589, 71576856),
     cos |-> Double(1, 0 - 106, 18506339, 51665927),
     sin |-> Double(1, 0 - 52, 16777216, 0)],
    [angle |-> Double(1, 0 - 52, 32209942, 117308986),
     cos |-> Double(0 - 1, 0 - 54, 22952583, 76155893),
     sin |-> Double(1, 0 - 53, 31530852, 38939932)],
    [angle |-> Double(1, 0 - 51, 16941593, 26839732),
     cos |-> Double(0 - 1, 0 - 54, 29117444, 225553344),
     sin |-> Double(1, 0 - 53, 30231498, 164322417)],
    [angle |-> Double(1, 0 - 51, 18447512, 130634436),
     cos |-> Double(0 - 1, 0 - 53, 19722800, 74799709),
     sin |-> Double(1, 0 - 53, 27146105, 194507944)],
    [angle |-> Double(1, 0 - 51, 19765191, 255009234),
     cos |-> Double(0 - 1, 0 - 53, 23726566, 109001676),
     sin |-> Double(1, 0 - 53, 23726566, 109001677)],
    [angle |-> Double(1, 0 - 51, 21961324, 104386622),
     cos |-> Double(0 - 1, 0 - 53, 29058990, 140004521),
     sin |-> Double(1, 0 - 53, 16777216, 3)],
    [angle |-> Double(1, 0 - 51, 23718230, 91262716),
     cos |-> Double(0 - 1, 0 - 53, 31912161, 54809855),
     sin |-> Double(1, 0 - 54, 20737779, 120580433)],
    [angle |-> Double(1, 0 - 51, 24471190, 8942340),
     cos |-> Double(0 - 1, 0 - 53, 32713152, 89713001),
     sin |-> Double(1, 0 - 55, 29866254, 50480518)],
    [angle |-> Double(1, 0 - 51, 26353589, 71576856),
     cos |-> Double(0 - 1, 0 - 52, 16777216, 0),
     sin |-> Double(1, 0 - 105, 18506339, 51665927)],
    [angle |-> Double(1, 0 - 51, 27817677, 150118752),
     cos |-> Double(0 - 1, 0 - 53, 33044664, 209787928),
     sin |-> Double(0 - 1, 0 - 55, 23306663, 235631486)],
    [angle |-> Double(1, 0 - 51, 28988948, 51890996),
     cos |-> Double(0 - 1, 0 - 53, 31912161, 54809856),
     sin |-> Double(0 - 1, 0 - 54, 20737779, 120580429)],
    [angle |-> Double(1, 0 - 51, 30745854, 38767088),
     cos |-> Double(0 - 1, 0 - 53, 29058990, 140004526),
     sin |-> Double(0 - 1, 0 - 54, 33554431, 268435445)],
    [angle |-> Double(1, 0 - 51, 32000786, 259480404),
     cos |-> Double(0 - 1, 0 - 53, 26233911, 84270668),
     sin |-> Double(0 - 1, 0 - 53, 20920846, 42724816)],
    [angle |-> Double(1, 0 - 51, 32941986, 156579934),
     cos |-> Double(0 - 1, 0 - 53, 23726566, 109001678),
     sin |-> Double(0 - 1, 0 - 53, 23726566, 109001676)],
    [angle |-> Double(1, 0 - 50, 16837015, 97925441),
     cos |-> Double(0 - 1, 0 - 53, 21568373, 37492254),
     sin |-> Double(0 - 1, 0 - 53, 25704186, 47140920)],
    [angle |-> Double(1, 0 - 50, 17129833, 6259638),
     cos |-> Double(0 - 1, 0 - 53, 19722800, 74799711),
     sin |-> Double(0 - 1, 0 - 53, 27146105, 194507943)]}

TrigEntry == [a \in {t.angle : t \in TrigTable} |-> CHOOSE t \in TrigTable : t.angle = a]

\* Math.cos(a)
MathCos(a) == IF a \in DOMAIN TrigEntry THEN TrigEntry[a].cos ELSE MathOp("cos", a, a)

\* Math.sin(a)
MathSin(a) == IF a \in DOMAIN TrigEntry THEN TrigEntry[a].sin ELSE MathOp("sin", a, a)

\* Math.PI / 2
HalfPI == GDiv(MathPI, GInt(2))

(***************************************************************************)
(* The constants of the chart.                                             *)
(***************************************************************************)
MINIMUM_SPOKES == 5

GRID_LEVELS == 5

PADDING == 60

CONTROL_POINT_DISTANCE == G(150000)

(***************************************************************************)
(* useChartCalculations: the factory of every memoized value.              *)
(***************************************************************************)
PaddingName(i) == <<"P", "o", "i", "n", "t", " ">> \o NumberText(i)

\* the while loop of normalizedData: push until MINIMUM_SPOKES points
RECURSIVE PadToMinimum(_)
PadToMinimum(processed) ==
    IF Len(processed) < MINIMUM_SPOKES
    THEN PadToMinimum(Append(processed, [name |-> PaddingName(Len(processed) + 1),
                                         value |-> GInt(0)]))
    ELSE processed

normalizedData_ZeroBased(data) ==
    data \o [i \in 1..(IF Len(data) < MINIMUM_SPOKES THEN MINIMUM_SPOKES - Len(data) ELSE 0)
             |-> [name |-> PaddingName(Len(data) + i - 1), value |-> GInt(0)]]

normalizedData(data) == PadToMinimum(data)

dimensions(width, height, normalized) ==
    [centerX |-> GDiv(width, GInt(2)),
     centerY |-> GDiv(height, GInt(2)),
     radius |-> GSub(GDiv(GMin(width, height), GInt(2)), GInt(PADDING)),
     spokeCount |-> Len(normalized),
     angleStep |-> GDiv(GMul(GInt(2), MathPI), GInt(Len(normalized)))]

\* spoke * angleStep - Math.PI / 2, for the zero-based index spoke
SpokeAngle(spoke, angleStep) == GSub(GMul(GInt(spoke), angleStep), HalfPI)

\* points.join(" ")
RECURSIVE JoinWithSpace(_)
JoinWithSpace(texts) ==
    IF texts = <<>> THEN <<>>
    ELSE IF Len(texts) = 1 THEN texts[1]
    ELSE texts[1] \o <<" ">> \o JoinWithSpace(Tail(texts))

\* the point at the distance r from the center in the direction angle:
\* center + r * Math.cos(angle), center + r * Math.sin(angle)
PointAt(centerX, centerY, r, angle) ==
    [x |-> GAdd(centerX, GMul(r, MathCos(angle))),
     y |-> GAdd(centerY, GMul(r, MathSin(angle)))]

\* levelRadius = (radius * level) / GRID_LEVELS, angle, x and y of a vertex
GridVertex(dim, level, spoke) ==
    PointAt(dim.centerX, dim.centerY,
            GDiv(GMul(dim.radius, GInt(level)), GInt(GRID_LEVELS)),
            SpokeAngle(spoke, dim.angleStep))

\* the text x.toFixed(2),y.toFixed(2) of a vertex
VertexText(vertex) == toFixed2(vertex.x) \o <<",">> \o toFixed2(vertex.y)

GridVertexText(dim, level, spoke) == VertexText(GridVertex(dim, level, spoke))

gridPolygons_OuterFirst(dim) ==
    [l \in 1..GRID_LEVELS |->
        JoinWithSpace([sp \in 1..dim.spokeCount |->
                          GridVertexText(dim, GRID_LEVELS + 1 - l, sp - 1)])]

gridPolygons(dim) ==
    [level \in 1..GRID_LEVELS |->
        JoinWithSpace([sp \in 1..dim.spokeCount |-> GridVertexText(dim, level, sp - 1)])]

\* the object staticDataPoints returns for a data point
StaticPoint(dim, angle, maxPointRadius) ==
    [angle |-> angle,
     maxRadius |-> maxPointRadius,
     centerX |-> dim.centerX,
     centerY |-> dim.centerY,
     cos |-> MathCos(angle),
     sin |-> MathSin(angle)]

\* Math.max(0, Math.min(maxValue, dataPoint.value))
ClampedDouble(maxV, value) == GMax(GInt(0), GMin(maxV, value))

staticDataPoints_Unscaled(normalized, dim, maxV) ==
    [i \in 1..Len(normalized) |->
        StaticPoint(dim, SpokeAngle(i - 1, dim.angleStep),
                    GMul(dim.radius, ClampedDouble(maxV, normalized[i].value)))]

staticDataPoints(normalized, dim, maxV) ==
    [i \in 1..Len(normalized) |->
        StaticPoint(dim, SpokeAngle(i - 1, dim.angleStep),
                    GDiv(GMul(dim.radius, ClampedDouble(maxV, normalized[i].value)),
                         maxV))]

\* the point of a data point at the distance animatedRadius
AnimatedPoint(static, animatedRadius) ==
    [x |-> GAdd(static.centerX, GMul(animatedRadius, static.cos)),
     y |-> GAdd(static.centerY, GMul(animatedRadius, static.sin))]

\* the memoized dataPoints of the hook
animatedDataPoints(static, progress) ==
    [i \in 1..Len(static) |->
        AnimatedPoint(static[i], GMul(static[i].maxRadius, progress))]

\* x.toFixed(2) y.toFixed(2)
PairText(x, y) == toFixed2(x) \o <<" ">> \o toFixed2(y)

\* the command C cp1, cp2, next of a segment, dx and dy the way from current
\* to next
SegmentText(current, next, dx, dy) ==
    <<" ", "C", " ">>
    \o PairText(GAdd(current.x, GMul(dx, CONTROL_POINT_DISTANCE)),
                GAdd(current.y, GMul(dy, CONTROL_POINT_DISTANCE)))
    \o <<",", " ">>
    \o PairText(GSub(next.x, GMul(dx, CONTROL_POINT_DISTANCE)),
                GSub(next.y, GMul(dy, CONTROL_POINT_DISTANCE)))
    \o <<",", " ">>
    \o PairText(next.x, next.y)

SegmentBetween(current, next) ==
    SegmentText(current, next, GSub(next.x, current.x), GSub(next.y, current.y))

\* the cubic segment from points[i] to points[(i + 1) % length], i zero-based
PathSegment(points, i) ==
    SegmentBetween(points[i + 1], points[((i + 1) % Len(points)) + 1])

RECURSIVE PathSegments(_, _)
PathSegments(points, i) ==
    IF i >= Len(points) THEN <<>>
    ELSE PathSegment(points, i) \o PathSegments(points, i + 1)

radarPath_Open(points) ==
    IF Len(points) = 0 THEN <<>>
    ELSE <<"M", " ">> \o PairText(points[1].x, points[1].y)
         \o PathSegments(points, 1) \o <<" ", "Z">>

radarPath(points) ==
    IF Len(points) = 0 THEN <<>>
    ELSE <<"M", " ">> \o PairText(points[1].x, points[1].y)
         \o PathSegments(points, 0) \o <<" ", "Z">>

\* the line from the center to the point end
SpokeTo(dim, end) ==
    [x1 |-> dim.centerX, y1 |-> dim.centerY, x2 |-> end.x, y2 |-> end.y]

spokes(dim) ==
    [i \in 1..dim.spokeCount |->
        SpokeTo(dim, PointAt(dim.centerX, dim.centerY, dim.radius,
                             SpokeAngle(i - 1, dim.angleStep)))]

useChartDimensions_NoMinimum(width, height, spokeCount) ==
    [centerX |-> GDiv(width, GInt(2)),
     centerY |-> GDiv(height, GInt(2)),
     radius |-> GSub(GDiv(GMin(width, height), GInt(2)), GInt(PADDING)),
     spokeCount |-> spokeCount,
     angleStep |-> GDiv(GMul(GInt(2), MathPI), GInt(spokeCount))]

useChartDimensions(width, height, spokeCount) ==
    LET actualSpokeCount == IF spokeCount > MINIMUM_SPOKES THEN spokeCount
                            ELSE MINIMUM_SPOKES
    IN [centerX |-> GDiv(width, GInt(2)),
        centerY |-> GDiv(height, GInt(2)),
        radius |-> GSub(GDiv(GMin(width, height), GInt(2)), GInt(PADDING)),
        spokeCount |-> actualSpokeCount,
        angleStep |-> GDiv(GMul(GInt(2), MathPI), GInt(actualSpokeCount))]

(***************************************************************************)
(* The state of a chart that is not mounted.                               *)
(***************************************************************************)
HookProps(width, height, data, maxV, progress) ==
    [width |-> width, height |-> height, data |-> data, maxValue |-> maxV,
     animationProgress |-> progress]

NoProps == HookProps(GInt(0), GInt(0), <<>>, GInt(0), GInt(0))

NoDimensions ==
    [centerX |-> GInt(0), centerY |-> GInt(0), radius |-> GInt(0), spokeCount |-> 0,
     angleStep |-> GInt(0)]

NoCalc ==
    [normalizedData |-> <<>>, dimensions |-> NoDimensions, gridPolygons |-> <<>>,
     staticDataPoints |-> <<>>, dataPoints |-> <<>>, radarPath |-> <<>>, spokes |-> <<>>]

NoValidation ==
    [isValid |-> FALSE, errors |-> <<>>, warnings |-> <<>>,
     processedData |-> [defined |-> FALSE, items |-> <<>>]]

ChartIdle ==
    /\ mounted = FALSE
    /\ props = NoProps
    /\ calc = NoCalc
    /\ recomputed = {}
    /\ validation = NoValidation

NotCalled == [called |-> FALSE, dimensions |-> NoDimensions]

DimIdle ==
    /\ dimIn = [width |-> GInt(0), height |-> GInt(0), count |-> 0]
    /\ dimHinted = NotCalled
    /\ dimCalculated = NotCalled

NoPath == [built |-> FALSE, path |-> <<>>]

PathIdle ==
    /\ pathIn = <<>>
    /\ pathOut = NoPath

CallsIdle == calls = [given |-> <<>>, arrays |-> <<>>, runs |-> <<>>]

NoDataSource == [present |-> FALSE, status |-> "undefined", items |-> UndefinedData]

NoMemo == [cached |-> FALSE, deps |-> <<>>, result |-> NoValidation]

WidgetIdle ==
    /\ dataSource = NoDataSource
    /\ nameAttribute = "set"
    /\ valueAttribute = "set"
    /\ maxValueProp = Undefined
    /\ memo = NoMemo
    /\ view = "unmounted"
    /\ retries = 0
    /\ lastRender = [event |-> "none", validated |-> FALSE]

NoPosition == [computed |-> FALSE, x |-> 0, y |-> 0]

TipIdle ==
    /\ tipIn = [mouseX |-> 0, mouseY |-> 0, width |-> 0, height |-> 0]
    /\ tipOut = NoPosition

\* the error boundary before its constructor ran
NoBoundary ==
    [constructed |-> FALSE, fallback |-> "none", onError |-> FALSE, children |-> "none",
     hasError |-> FALSE, error |-> "undefined", errorInfo |-> "undefined",
     rendered |-> "nothing", pc |-> "idle", event |-> "none", failures |-> 0,
     reported |-> 0]

BoundaryIdle == boundary = NoBoundary

PadIdle ==
    /\ padIn = <<>>
    /\ padOut = [validated |-> FALSE, normalized |-> FALSE, result |-> NoValidation,
                 names |-> <<>>]

LaterIdle == WidgetIdle /\ TipIdle /\ BoundaryIdle /\ PadIdle

OtherIdle == ChartIdle /\ DimIdle /\ PathIdle /\ CallsIdle /\ LaterIdle

(***************************************************************************)
(* One call of validateRadarChartData, the forEach taken one element at a  *)
(* time.  index counts the elements already visited.                       *)
(***************************************************************************)
NoValueResult == [processedValue |-> Num(0), errors |-> <<>>, warnings |-> <<>>]

ClampIdle ==
    /\ clampIn = Num(0)
    /\ clampOnce = NoValueResult
    /\ clampTwice = NoValueResult
    /\ clampGeo = Num(0)
    /\ clampPc = "idle"

Init ==
    /\ ClampIdle
    /\ OtherIdle
    /\ dataPoints \in ArgInputs
    /\ \E r \in RangeInputs : maxValue = Num(r[1]) /\ minValue = Num(r[2])
    /\ pc = "start"
    /\ index = 0
    /\ errors = <<>>
    /\ warnings = <<>>
    /\ processedData = <<>>
    /\ seenNames = {}
    /\ result = NoResult

\* the structural checks, ending the call when they fail
Call ==
    /\ pc = "start"
    /\ IF IsMissing(dataPoints)
       THEN /\ result' = EarlyResult("MISSING_DATA")
            /\ errors' = result'.errors
            /\ pc' = "done"
       ELSE IF Len(dataPoints.items) = 0
       THEN /\ result' = EarlyResult("EMPTY_VALUES")
            /\ errors' = result'.errors
            /\ pc' = "done"
       ELSE /\ pc' = "loop"
            /\ UNCHANGED <<result, errors>>
    /\ UNCHANGED <<dataPoints, maxValue, minValue, index, warnings, processedData,
                   seenNames>>
    /\ UNCHANGED clampVars
    /\ UNCHANGED otherVars

\* one iteration of dataPoints.forEach
ProcessPoint ==
    /\ pc = "loop"
    /\ index < Len(dataPoints.items)
    /\ LET point == dataPoints.items[index + 1]
           nameValidation == validateDataPointName(point.name, index, seenNames)
           valueValidation == validateDataPointValue(point.value, index, maxValue, minValue)
       IN IF IsNotObject(point)
          THEN /\ errors' = Append(errors, NotObjectError(index))
               /\ UNCHANGED <<warnings, processedData, seenNames>>
          ELSE /\ errors' = errors \o nameValidation.errors \o valueValidation.errors
               /\ warnings' = warnings \o nameValidation.warnings \o valueValidation.warnings
               /\ seenNames' = nameValidation.seen
               /\ processedData' =
                      IF Usable(nameValidation, valueValidation)
                      THEN PushPoint(processedData, nameValidation.processedName,
                                     valueValidation.processedValue)
                      ELSE processedData
    /\ index' = index + 1
    /\ UNCHANGED <<dataPoints, maxValue, minValue, pc, result>>
    /\ UNCHANGED clampVars
    /\ UNCHANGED otherVars

\* the final validation after the loop, and the return
Finish ==
    /\ pc = "loop"
    /\ index = Len(dataPoints.items)
    /\ result' = FinalResult(errors, warnings, processedData)
    /\ errors' = result'.errors
    /\ pc' = "done"
    /\ UNCHANGED <<dataPoints, maxValue, minValue, index, warnings, processedData,
                   seenNames>>
    /\ UNCHANGED clampVars
    /\ UNCHANGED otherVars

Next == Call \/ ProcessPoint \/ Finish

Spec == Init /\ [][Next]_vars

(***************************************************************************)
(* Clamping applied twice: validateDataPointValue on a number, then on its *)
(* own result, and the geometry's clamp of a validated value               *)
(* (Math.max(0, Math.min(maxValue, value)) in staticDataPoints).           *)
(***************************************************************************)
\* Math.min(a, b)
MathMin(a, b) == IF IsNaN(a) \/ IsNaN(b) THEN NaN ELSE IF NumLt(b, a) THEN b ELSE a

\* Math.max(a, b)
MathMax(a, b) == IF IsNaN(a) \/ IsNaN(b) THEN NaN ELSE IF NumGt(b, a) THEN b ELSE a

\* const clampedValue = Math.max(0, Math.min(maxValue, dataPoint.value))
clampedValue(maxV, value) == MathMax(Num(0), MathMin(maxV, value))

NumericInputs == {Num(i) : i \in (0 - MaxInput)..MaxInput} \cup {PosInf, NegInf}

ClampRangeInputs == {<<a, b>> : a \in {-1, 0, 2, 5}, b \in {-2, 0, 3}}

ValidatorIdle ==
    /\ dataPoints = NonArray("undefined")
    /\ pc = "idle"
    /\ index = 0
    /\ errors = <<>>
    /\ warnings = <<>>
    /\ processedData = <<>>
    /\ seenNames = {}
    /\ result = NoResult

ClampInit ==
    /\ ValidatorIdle
    /\ OtherIdle
    /\ clampIn \in NumericInputs
    /\ \E r \in ClampRangeInputs : maxValue = Num(r[1]) /\ minValue = Num(r[2])
    /\ clampOnce = NoValueResult
    /\ clampTwice = NoValueResult
    /\ clampGeo = Num(0)
    /\ clampPc = "input"

\* validateDataPointValue on the raw number
ClampFirst ==
    /\ clampPc = "input"
    /\ clampOnce' = validateDataPointValue(clampIn, 0, maxValue, minValue)
    /\ clampPc' = "once"
    /\ UNCHANGED <<clampIn, clampTwice, clampGeo, maxValue, minValue>>
    /\ UNCHANGED validatorVars
    /\ UNCHANGED otherVars

\* validateDataPointValue on the value it returned
ClampSecond ==
    /\ clampPc = "once"
    /\ clampTwice' = validateDataPointValue(clampOnce.processedValue, 0, maxValue, minValue)
    /\ clampPc' = "twice"
    /\ UNCHANGED <<clampIn, clampOnce, clampGeo, maxValue, minValue>>
    /\ UNCHANGED validatorVars
    /\ UNCHANGED otherVars

\* the geometry's clamp of the validated value
ClampGeometry ==
    /\ clampPc = "twice"
    /\ clampGeo' = clampedValue(maxValue, clampOnce.processedValue)
    /\ clampPc' = "geometry"
    /\ UNCHANGED <<clampIn, clampOnce, clampTwice, maxValue, minValue>>
    /\ UNCHANGED validatorVars
    /\ UNCHANGED otherVars

ClampNext == ClampFirst \/ ClampSecond \/ ClampGeometry

ClampSpec == ClampInit /\ [][ClampNext]_vars

(***************************************************************************)
(* validateRadarChartData as one function of its arguments: the forEach    *)
(* folded over the elements.                                               *)
(***************************************************************************)
NoneVisited == [errors |-> <<>>, warnings |-> <<>>, processedData |-> <<>>, seenNames |-> {}]

\* one iteration of dataPoints.forEach on the lists of the call
VisitPoint(acc, point, i, maxV, minV) ==
    LET nameValidation == validateDataPointName(point.name, i, acc.seenNames)
        valueValidation == validateDataPointValue(point.value, i, maxV, minV)
    IN IF IsNotObject(point)
       THEN [acc EXCEPT !.errors = Append(acc.errors, NotObjectError(i))]
       ELSE [errors |-> acc.errors \o nameValidation.errors \o valueValidation.errors,
             warnings |-> acc.warnings \o nameValidation.warnings
                              \o valueValidation.warnings,
             seenNames |-> nameValidation.seen,
             processedData |->
                 IF Usable(nameValidation, valueValidation)
                 THEN PushPoint(acc.processedData, nameValidation.processedName,
                                valueValidation.processedValue)
                 ELSE acc.processedData]

RECURSIVE VisitFrom(_, _, _, _, _)
VisitFrom(acc, items, i, maxV, minV) ==
    IF i >= Len(items) THEN acc
    ELSE VisitFrom(VisitPoint(acc, items[i + 1], i, maxV, minV), items, i + 1, maxV, minV)

validateRadarChartData(arg, maxV, minV) ==
    IF IsMissing(arg) THEN EarlyResult("MISSING_DATA")
    ELSE IF Len(arg.items) = 0 THEN EarlyResult("EMPTY_VALUES")
    ELSE LET acc == VisitFrom(NoneVisited, arg.items, 0, maxV, minV)
         IN FinalResult(acc.errors, acc.warnings, acc.processedData)

(***************************************************************************)
(* One mounted useChartCalculations.  calc holds the memoized values and   *)
(* recomputed the names of those the last render computed anew.            *)
(***************************************************************************)
MaxPoints == 6

\* the values of the data points, by position
ValuePattern(i) ==
    IF i % 4 = 1 THEN GInt(3)
    ELSE IF i % 4 = 2 THEN GInt(9)
    ELSE IF i % 4 = 3 THEN GInt(-2)
    ELSE G(2500000)

ChartDataOf(n) == [i \in 1..n |-> [name |-> <<"S">> \o NumberText(i), value |-> ValuePattern(i)]]

DataInputs == {ChartDataOf(n) : n \in 0..MaxPoints}

SizeInputs == {<<GInt(400), GInt(400)>>, <<GInt(320), GInt(400)>>, <<GInt(400), GInt(280)>>}

MaxValueInputs == {GInt(5), GInt(0)}

ProgressInputs == {GInt(0), G(500000), GInt(1)}

\* the arrays the widget hands to the validator, with the maxValue of the widget
RawInputs ==
    {ArrayOf(<<Point(Str(<<"A">>), Num(1))>>),
     ArrayOf(<<Point(Str(<<"A">>), Num(3)), Point(Str(<<"B">>), Num(9)),
               Point(Str(<<"C">>), Num(-2))>>),
     ArrayOf(<<Point(Str(<<"A">>), Num(3)), NonObject("null")>>),
     ArrayOf(<<>>)}

RawMaxValueInputs == {5, 0, -1}

\* processedData as the data of the chart
ChartDataFrom(processed) ==
    [i \in 1..Len(processed) |->
        [name |-> processed[i].name, value |-> GOfNum(processed[i].value)]]

\* the dependencies [width, height, normalizedData.length] of dimensions
DimensionsDepsChanged(old, new, oldNormalized, normalized) ==
    \/ new.width # old.width
    \/ new.height # old.height
    \/ Len(normalized) # Len(oldNormalized)

\* staticDataPoints depending on the animation progress too
StaticDepsChanged_WithProgress(dimChanged, normChanged, old, new) ==
    \/ dimChanged
    \/ normChanged
    \/ new.maxValue # old.maxValue
    \/ new.animationProgress # old.animationProgress

\* the dependencies [dimensions, normalizedData, maxValue] of staticDataPoints
StaticDepsChanged(dimChanged, normChanged, old, new) ==
    \/ dimChanged
    \/ normChanged
    \/ new.maxValue # old.maxValue

PointsDepsChanged_StaticOnly(staticChanged, old, new) == staticChanged

\* the dependencies [staticDataPoints, animationProgress] of dataPoints
PointsDepsChanged(staticChanged, old, new) ==
    \/ staticChanged
    \/ new.animationProgress # old.animationProgress

\* gridPolygons on the dimensions of the charts of the inputs, computed once
GridTable ==
    [dim \in {dimensions(size[1], size[2], normalizedData(data)) :
                 size \in SizeInputs, data \in DataInputs} |-> gridPolygons(dim)]

\* gridPolygons(dim), looked up for the dimensions of table
GridIn(table, dim) == IF dim \in DOMAIN table THEN table[dim] ELSE gridPolygons(dim)

GridOf(dim) == GridIn(GridTable, dim)

\* useMemo: the factory's value when a dependency changed, the kept one
\* otherwise
Memo(changed, fresh, kept) == [changed |-> changed, value |-> IF changed THEN fresh ELSE kept]

\* what the hook returns, from its memos
HookResult(oldCalc, normalized, dim, static, points) ==
    [calc |->
        [normalizedData |-> normalized.value,
         dimensions |-> dim.value,
         gridPolygons |-> Memo(dim.changed, GridOf(dim.value), oldCalc.gridPolygons).value,
         staticDataPoints |-> static.value,
         dataPoints |-> points.value,
         radarPath |-> Memo(points.changed, radarPath(points.value), oldCalc.radarPath).value,
         spokes |-> Memo(dim.changed, spokes(dim.value), oldCalc.spokes).value],
     recomputed |->
        (IF normalized.changed THEN {"normalizedData"} ELSE {})
        \cup (IF dim.changed THEN {"dimensions", "gridPolygons", "spokes"} ELSE {})
        \cup (IF static.changed THEN {"staticDataPoints"} ELSE {})
        \cup (IF points.changed THEN {"dataPoints", "radarPath"} ELSE {})]

\* the hook from the memo of staticDataPoints on
AfterStaticDataPoints(wasMounted, old, oldCalc, new, normalized, dim, static) ==
    HookResult(oldCalc, normalized, dim, static,
               Memo(~wasMounted \/ PointsDepsChanged(static.changed, old, new),
                    animatedDataPoints(static.value, new.animationProgress),
                    oldCalc.dataPoints))

\* the hook from the memo of dimensions on
AfterDimensions(wasMounted, old, oldCalc, new, normalized, dim) ==
    AfterStaticDataPoints(wasMounted, old, oldCalc, new, normalized, dim,
        Memo(~wasMounted \/ StaticDepsChanged(dim.changed, normalized.changed, old, new),
             staticDataPoints(normalized.value, dim.value, new.maxValue),
             oldCalc.staticDataPoints))

\* the hook from the memo of normalizedData on
AfterNormalizedData(wasMounted, old, oldCalc, new, normalized) ==
    AfterDimensions(wasMounted, old, oldCalc, new, normalized,
        Memo(~wasMounted
             \/ DimensionsDepsChanged(old, new, oldCalc.normalizedData, normalized.value),
             dimensions(new.width, new.height, normalized.value),
             oldCalc.dimensions))

\* one run of the hook: every useMemo in the order of the source; newArray says
\* that data is another array than at the last render
RenderHook(wasMounted, old, oldCalc, new, newArray) ==
    AfterNormalizedData(wasMounted, old, oldCalc, new,
        Memo(~wasMounted \/ newArray, normalizedData(new.data), oldCalc.normalizedData))

\* the state after the run of the hook with the properties new
Commit(new, run) ==
    /\ mounted' = TRUE
    /\ props' = new
    /\ calc' = run.calc
    /\ recomputed' = run.recomputed

\* the render of the hook with the properties new
Rendered(new, newArray) == Commit(new, RenderHook(mounted, props, calc, new, newArray))

ChartInit ==
    /\ ValidatorIdle
    /\ ClampIdle
    /\ maxValue = Num(0)
    /\ minValue = Num(0)
    /\ OtherIdle

\* the first render of a component that uses the hook
MountHook ==
    /\ ~mounted
    /\ \E size \in SizeInputs, d \in DataInputs, mv \in MaxValueInputs, p \in ProgressInputs :
           Rendered(HookProps(size[1], size[2], d, mv, p), TRUE)
    /\ validation' = NoValidation
    /\ UNCHANGED nonChartVars

\* RadarChartWidget renders: the data is validated against maxValue and the chart
\* is shown when the result passes the error and the empty state
RenderWidget ==
    /\ mounted => validation # NoValidation
    /\ \E raw \in RawInputs, mv \in RawMaxValueInputs :
        LET validationResult == validateRadarChartData(raw, Num(mv), Num(0))
            shown == /\ ~(~validationResult.isValid /\ Len(validationResult.errors) > 0)
                     /\ validationResult.processedData.defined
                     /\ Len(validationResult.processedData.items) > 0
        IN /\ validation' = validationResult
           /\ IF shown
              THEN \E size \in SizeInputs, p \in ProgressInputs :
                     /\ mounted => (size = <<props.width, props.height>>
                                    /\ p = props.animationProgress)
                     /\ Rendered(HookProps(size[1], size[2],
                                           ChartDataFrom(validationResult.processedData.items),
                                           GInt(mv), p), TRUE)
              ELSE /\ mounted' = FALSE
                   /\ props' = NoProps
                   /\ calc' = NoCalc
                   /\ recomputed' = {}
    /\ UNCHANGED nonChartVars

\* a frame of the animation: only animationProgress differs
Tick ==
    /\ mounted
    /\ \E p \in ProgressInputs :
        /\ p # props.animationProgress
        /\ Rendered([props EXCEPT !.animationProgress = p], FALSE)
    /\ UNCHANGED <<validation, nonChartVars>>

\* the chart gets another width or height
Resize ==
    /\ mounted
    /\ \E size \in SizeInputs :
        /\ size # <<props.width, props.height>>
        /\ Rendered([props EXCEPT !.width = size[1], !.height = size[2]], FALSE)
    /\ UNCHANGED <<validation, nonChartVars>>

\* the component that uses the hook passes another data array
SetData ==
    /\ mounted
    /\ validation = NoValidation
    /\ \E d \in DataInputs : Rendered([props EXCEPT !.data = d], TRUE)
    /\ UNCHANGED <<validation, nonChartVars>>

\* the component that uses the hook passes another maxValue
SetMaxValue ==
    /\ mounted
    /\ validation = NoValidation
    /\ \E mv \in MaxValueInputs :
        /\ mv # props.maxValue
        /\ Rendered([props EXCEPT !.maxValue = mv], FALSE)
    /\ UNCHANGED <<validation, nonChartVars>>

ChartNext == MountHook \/ RenderWidget \/ Tick \/ Resize \/ SetData \/ SetMaxValue

ChartSpec == ChartInit /\ [][ChartNext]_vars

(***************************************************************************)
(* The two ways to the dimensions of a chart: useChartDimensions with a    *)
(* spoke count, and useChartCalculations with as many data points.         *)
(***************************************************************************)
DimSizeInputs ==
    SizeInputs \cup {<<GInt(301), GInt(200)>>, <<GInt(100), GInt(100)>>}

DimInit ==
    /\ ValidatorIdle
    /\ ClampIdle
    /\ maxValue = Num(0)
    /\ minValue = Num(0)
    /\ LaterIdle
    /\ ChartIdle
    /\ PathIdle
    /\ CallsIdle
    /\ \E size \in DimSizeInputs, n \in 0..MaxPoints :
           dimIn = [width |-> size[1], height |-> size[2], count |-> n]
    /\ dimHinted = NotCalled
    /\ dimCalculated = NotCalled

\* useChartDimensions(width, height, spokeCount)
CallUseChartDimensions ==
    /\ ~dimHinted.called
    /\ dimHinted' = [called |-> TRUE,
                     dimensions |-> useChartDimensions(dimIn.width, dimIn.height,
                                                       dimIn.count)]
    /\ UNCHANGED <<dimIn, dimCalculated>>
    /\ UNCHANGED <<validatorVars, clampVars, maxValue, minValue, chartVars, pathVars, calls,
                   laterVars>>

\* the dimensions of useChartCalculations(width, height, data, ...)
CallUseChartCalculations ==
    /\ ~dimCalculated.called
    /\ dimCalculated' =
           [called |-> TRUE,
            dimensions |-> dimensions(dimIn.width, dimIn.height,
                                      normalizedData(ChartDataOf(dimIn.count)))]
    /\ UNCHANGED <<dimIn, dimHinted>>
    /\ UNCHANGED <<validatorVars, clampVars, maxValue, minValue, chartVars, pathVars, calls,
                   laterVars>>

DimNext == CallUseChartDimensions \/ CallUseChartCalculations

DimSpec == DimInit /\ [][DimNext]_vars

(***************************************************************************)
(* The path builder of radarPath applied to a list of points.              *)
(***************************************************************************)
MaxPathLen == 3

PathPoint(x, y) == [x |-> x, y |-> y]

\* a point above the center, one off the grid of hundredths, one left of
\* the origin by less than a hundredth, and the point of a chart with maxValue 0
PathPointInputs ==
    {PathPoint(GInt(200), GInt(60)), PathPoint(G(333153000), G(156738000)),
     PathPoint(G(-4000), G(12340000)), PathPoint(GNaN, GNaN)}

PathInputs == UNION {[1..n -> PathPointInputs] : n \in 0..MaxPathLen}

PathInit ==
    /\ ValidatorIdle
    /\ ClampIdle
    /\ maxValue = Num(0)
    /\ minValue = Num(0)
    /\ LaterIdle
    /\ ChartIdle
    /\ DimIdle
    /\ CallsIdle
    /\ pathIn \in PathInputs
    /\ pathOut = NoPath

\* the factory of radarPath on the points
BuildPath ==
    /\ ~pathOut.built
    /\ pathOut' = [built |-> TRUE, path |-> radarPath(pathIn)]
    /\ UNCHANGED pathIn
    /\ UNCHANGED <<validatorVars, clampVars, maxValue, minValue, chartVars, dimVars, calls,
                   laterVars>>

PathNext == BuildPath

PathSpec == PathInit /\ [][PathNext]_vars

(***************************************************************************)
(* Several calls of validateRadarChartData under way at once, each taken   *)
(* one element at a time.  calls.arrays are the arrays of the callers,     *)
(* calls.given what they held when the calls began, and calls.runs the     *)
(* local constants and the position of every call.                        *)
(***************************************************************************)
MaxCalls == 2

\* the arrays of the callers: two calls may be given the same one
ArrayIds == {1, 2}

\* no element, a name twice but for its case with a value above maxValue, and
\* an element that is no object before a sound one
ConcInputs ==
    {<<>>,
     <<Point(Str(<<"A">>), Num(1)), Point(Str(<<"a">>), Num(9))>>,
     <<NonObject("null"), Point(Str(<<"A">>), Num(1))>>}

ConcMaxValueInputs == {5, 2}

\* a call that has not begun: array is the index of its argument in calls.arrays
NewRun(array, maxV) ==
    [array |-> array, maxValue |-> Num(maxV), minValue |-> Num(0), pc |-> "start",
     index |-> 0, errors |-> <<>>, warnings |-> <<>>, processedData |-> <<>>,
     seenNames |-> {}, result |-> NoResult]

\* one set of names for all the calls, as a variable of the module would be
SeenBy_Shared(c, runs) == UNION {runs[d].seenNames : d \in DOMAIN runs}

\* const seenNames = new Set<string>(): the set of the call itself
SeenBy(c, runs) == runs[c].seenNames

ConcInit ==
    /\ ValidatorIdle
    /\ ClampIdle
    /\ maxValue = Num(0)
    /\ minValue = Num(0)
    /\ LaterIdle
    /\ ChartIdle
    /\ DimIdle
    /\ PathIdle
    /\ \E arrays \in [ArrayIds -> ConcInputs] :
       \E args \in [1..MaxCalls -> ArrayIds \X ConcMaxValueInputs] :
           calls = [given |-> arrays,
                    arrays |-> arrays,
                    runs |-> [c \in 1..MaxCalls |-> NewRun(args[c][1], args[c][2])]]

\* call c makes its structural checks
StartCall(c) ==
    LET run == calls.runs[c]
        arg == ArrayOf(calls.arrays[run.array])
    IN /\ run.pc = "start"
       /\ calls' = [calls EXCEPT !.runs[c] =
              IF IsMissing(arg)
              THEN [run EXCEPT !.result = EarlyResult("MISSING_DATA"),
                               !.errors = EarlyResult("MISSING_DATA").errors,
                               !.pc = "done"]
              ELSE IF Len(arg.items) = 0
              THEN [run EXCEPT !.result = EarlyResult("EMPTY_VALUES"),
                               !.errors = EarlyResult("EMPTY_VALUES").errors,
                               !.pc = "done"]
              ELSE [run EXCEPT !.pc = "loop"]]

\* call c makes one iteration of its forEach
VisitCall(c) ==
    LET run == calls.runs[c]
        items == calls.arrays[run.array]
    IN /\ run.pc = "loop"
       /\ run.index < Len(items)
       /\ LET acc == VisitPoint([errors |-> run.errors, warnings |-> run.warnings,
                                 processedData |-> run.processedData,
                                 seenNames |-> SeenBy(c, calls.runs)],
                                items[run.index + 1], run.index, run.maxValue, run.minValue)
          IN calls' = [calls EXCEPT !.runs[c] =
                 [run EXCEPT !.errors = acc.errors,
                             !.warnings = acc.warnings,
                             !.processedData = acc.processedData,
                             !.seenNames = acc.seenNames,
                             !.index = run.index + 1]]

\* call c makes its final validation and returns
FinishCall(c) ==
    LET run == calls.runs[c]
    IN /\ run.pc = "loop"
       /\ run.index = Len(calls.arrays[run.array])
       /\ calls' = [calls EXCEPT !.runs[c] =
              [run EXCEPT !.result = FinalResult(run.errors, run.warnings, run.processedData),
                          !.errors = FinalResult(run.errors, run.warnings,
                                                 run.processedData).errors,
                          !.pc = "done"]]

ConcStep(c) == StartCall(c) \/ VisitCall(c) \/ FinishCall(c)

ConcNext ==
    /\ \E c \in 1..MaxCalls : ConcStep(c)
    /\ UNCHANGED <<validatorVars, clampVars, maxValue, minValue, chartVars, dimVars, pathVars,
                   laterVars>>

ConcSpec == ConcInit /\ [][ConcNext]_vars

(***************************************************************************)
(* The widget: RadarChartWidget renders what useRadarChartData returns for *)
(* its props.  dataSource is the Mendix list value (present, its status    *)
(* and its items), nameAttribute and valueAttribute are how the attribute  *)
(* props behave, maxValueProp is the maxValue prop (a Big or undefined),   *)
(* memo is the useMemo cell of the hook, retries is the state behind       *)
(* forceUpdate, view is the branch the last render took and lastRender     *)
(* says which event caused it and whether it ran the hook's factory.      *)
(***************************************************************************)
\* most items of an available data source
MaxItems == 2

\* most activations of "Try Again"
MaxRetries == 2

CHART_DEFAULTS_MAX_VALUE == 5

\* one object of the data source: what the attributes yield for it
Item(displayValue, value) == [displayValue |-> displayValue, value |-> value]

ItemInputs ==
    {Item(Str(<<"A">>), Num(1)),
     Item(Str(<<"B">>), Num(9)),
     Item(Undefined, Undefined)}

RECURSIVE ItemLists(_)
ItemLists(n) ==
    IF n = 0 THEN {<<>>}
    ELSE LET shorter == ItemLists(n - 1)
         IN shorter \cup {Append(l, it) : l \in {s \in shorter : Len(s) = n - 1},
                                          it \in ItemInputs}

DataSource(status, items) == [present |-> TRUE, status |-> status, items |-> items]

DataSourceInputs ==
    {NoDataSource,
     DataSource("loading", UndefinedData),
     DataSource("unavailable", UndefinedData),
     DataSource("undefined", UndefinedData),
     DataSource("available", UndefinedData)}
    \cup {DataSource("available", DefinedData(l)) : l \in ItemLists(MaxItems)}

NameAttributeInputs == {"set", "missing", "throws"}

ValueAttributeInputs == {"set", "missing"}

MaxValuePropInputs == {Undefined, Num(2)}

\* dataSource && dataSource.status === "loading"
isDataSourceLoading(ds) == ds.present /\ ds.status = "loading"

\* dataSource && dataSource.status === "available" && dataSource.items
isDataSourceAvailable(ds) == ds.present /\ ds.status = "available" /\ ds.items.defined

\* dataSource && dataSource.status === "unavailable"
hasDataSourceError(ds) == ds.present /\ ds.status = "unavailable"

\* a Big is an object, hence truthy whatever its value
bigToNumber(value, defaultValue) ==
    IF value.t \in {"undefined", "null"} THEN defaultValue ELSE value

getDefaultRadarChartData ==
    <<[name |-> <<"R", "o", "l", "e", "s", " ", "a", "n", "d", " ", "S", "k", "i", "l", "l", "s">>,
       value |-> G(4200000)],
      [name |-> <<"A", "g", "i", "l", "e", " ", "W", "o", "r", "k", "i", "n", "g">>,
       value |-> G(3800000)],
      [name |-> <<"T", "r", "a", "i", "n", "i", "n", "g">>,
       value |-> G(4500000)],
      [name |-> <<"E", "x", "p", "e", "r", "t", "s">>,
       value |-> G(3900000)],
      [name |-> <<"P", "r", "o", "g", "r", "a", "m", " ", "O", "w", "n", "e", "r">>,
       value |-> G(4100000)],
      [name |-> <<"S", "p", "o", "n", "s", "o", "r", "s", "h", "i", "p">>,
       value |-> G(4300000)],
      [name |-> <<"T", "e", "c", "h", "n", "i", "c", "a", "l", " ", "O", "w", "n", "e", "r">>,
       value |-> G(3700000)],
      [name |-> <<"P", "a", "r", "t", "n", "e", "r", "s">>,
       value |-> G(4000000)]>>

\* the result with its numbers as the chart takes them
ChartResult(v) ==
    [v EXCEPT !.processedData =
        [defined |-> v.processedData.defined,
         items |-> ChartDataFrom(v.processedData.items)]]

\* nameAttribute?.get(item)?.displayValue || "Unknown"
ItemName(na, item) ==
    LET displayValue == IF na = "missing" THEN Undefined ELSE item.displayValue
    IN IF Falsy(displayValue) THEN Str(<<"U", "n", "k", "n", "o", "w", "n">>)
       ELSE displayValue

\* bigToNumber(valueAttribute?.get(item)?.value, 0)
ItemValue(va, item) ==
    bigToNumber(IF va = "missing" THEN Undefined ELSE item.value, Num(0))

\* the result of the loading branch, which keeps an empty array
LoadingResult ==
    [isValid |-> FALSE, errors |-> <<>>, warnings |-> <<>>,
     processedData |-> DefinedData(<<>>)]

DefaultResult_Empty ==
    [isValid |-> TRUE, errors |-> <<>>, warnings |-> <<>>,
     processedData |-> DefinedData(<<>>)]

DefaultResult ==
    [isValid |-> TRUE, errors |-> <<>>, warnings |-> <<>>,
     processedData |-> DefinedData(getDefaultRadarChartData)]

\* the factory of the useMemo of useRadarChartData
ProcessDataSource(ds, na, va, mv) ==
    IF ~ds.present THEN EarlyResult("MISSING_DATA")
    ELSE IF isDataSourceLoading(ds) THEN LoadingResult
    ELSE IF hasDataSourceError(ds) THEN EarlyResult("MISSING_DATA")
    ELSE IF ~isDataSourceAvailable(ds) THEN DefaultResult
    ELSE LET rawItems == ds.items.items
         IN IF na = "throws" /\ Len(rawItems) > 0
            THEN EarlyResult("INVALID_DATA_TYPE")
            ELSE LET points == [i \in 1..Len(rawItems) |->
                                  Point(ItemName(na, rawItems[i]),
                                        ItemValue(va, rawItems[i]))]
                     maxVal == bigToNumber(mv, Num(CHART_DEFAULTS_MAX_VALUE))
                 IN ChartResult(validateRadarChartData(ArrayOf(points), maxVal, Num(0)))

\* the dependency array of the useMemo
HookDeps(ds, na, va, mv) == <<ds, na, va, mv>>

\* useMemo runs its factory on the first render and when a dependency changed
FactoryRuns(cell, deps) == ~cell.cached \/ cell.deps # deps

useRadarChartData(cell, ds, na, va, mv) ==
    LET deps == HookDeps(ds, na, va, mv)
        runs == FactoryRuns(cell, deps)
    IN [cell |-> [cached |-> TRUE, deps |-> deps,
                  result |-> IF runs THEN ProcessDataSource(ds, na, va, mv)
                             ELSE cell.result],
        validated |-> runs]

\* the branch the render of the widget takes
WidgetView_NoErrorState(ds, validationResult) ==
    IF isDataSourceLoading(ds) THEN "skeleton"
    ELSE IF ~validationResult.processedData.defined
            \/ Len(validationResult.processedData.items) = 0 THEN "empty"
    ELSE "chart"

WidgetView(ds, validationResult) ==
    IF isDataSourceLoading(ds) THEN "skeleton"
    ELSE IF ~validationResult.isValid /\ Len(validationResult.errors) > 0 THEN "error"
    ELSE IF ~validationResult.processedData.defined
            \/ Len(validationResult.processedData.items) = 0 THEN "empty"
    ELSE "chart"

\* where the render offers "Try Again"
RetryOffered ==
    \/ view = "error"
    \/ view = "empty" /\ hasDataSourceError(dataSource)

RenderWidgetWith(ds, na, va, mv, event) ==
    LET hook == useRadarChartData(memo, ds, na, va, mv)
    IN /\ dataSource' = ds
       /\ nameAttribute' = na
       /\ valueAttribute' = va
       /\ maxValueProp' = mv
       /\ memo' = hook.cell
       /\ view' = WidgetView(ds, hook.cell.result)
       /\ lastRender' = [event |-> event, validated |-> hook.validated]

\* every other part of the model at rest
EarlierIdle ==
    /\ ValidatorIdle
    /\ ClampIdle
    /\ maxValue = Num(0)
    /\ minValue = Num(0)
    /\ ChartIdle
    /\ DimIdle
    /\ PathIdle
    /\ CallsIdle

WidgetInit == EarlierIdle /\ LaterIdle

MountWidget ==
    /\ view = "unmounted"
    /\ \E ds \in DataSourceInputs, na \in NameAttributeInputs,
          va \in ValueAttributeInputs, mv \in MaxValuePropInputs :
            RenderWidgetWith(ds, na, va, mv, "mount")
    /\ UNCHANGED retries
    /\ UNCHANGED <<earlierVars, tipVars, boundary, padVars>>

SetDataSource ==
    /\ view # "unmounted"
    /\ \E ds \in DataSourceInputs \ {dataSource} :
            RenderWidgetWith(ds, nameAttribute, valueAttribute, maxValueProp, "props")
    /\ UNCHANGED retries
    /\ UNCHANGED <<earlierVars, tipVars, boundary, padVars>>

SetAttributes ==
    /\ view # "unmounted"
    /\ \E na \in NameAttributeInputs, va \in ValueAttributeInputs :
        /\ <<na, va>> # <<nameAttribute, valueAttribute>>
        /\ RenderWidgetWith(dataSource, na, va, maxValueProp, "props")
    /\ UNCHANGED retries
    /\ UNCHANGED <<earlierVars, tipVars, boundary, padVars>>

SetMaxValueProp ==
    /\ view # "unmounted"
    /\ \E mv \in MaxValuePropInputs \ {maxValueProp} :
            RenderWidgetWith(dataSource, nameAttribute, valueAttribute, mv, "props")
    /\ UNCHANGED retries
    /\ UNCHANGED <<earlierVars, tipVars, boundary, padVars>>

\* handleRetry: forceUpdate(prev => prev + 1), then the render it causes
Retry ==
    /\ RetryOffered
    /\ retries < MaxRetries
    /\ retries' = retries + 1
    /\ RenderWidgetWith(dataSource, nameAttribute, valueAttribute, maxValueProp, "retry")
    /\ UNCHANGED <<earlierVars, tipVars, boundary, padVars>>

WidgetNext ==
    \/ MountWidget
    \/ SetDataSource
    \/ SetAttributes
    \/ SetMaxValueProp
    \/ Retry

WidgetSpec == WidgetInit /\ [][WidgetNext]_vars

(***************************************************************************)
(* The tooltip: calculateTooltipPosition on a mouse position inside a      *)
(* container.  tipIn holds the arguments of the last call (the mouse       *)
(* position and the width and height of containerRect), tipOut what it    *)
(* returned.                                                               *)
(***************************************************************************)
TOOLTIP_WIDTH == 80

TOOLTIP_HEIGHT == 32

TOOLTIP_MARGIN == 10

TOOLTIP_RIGHT_OFFSET == 20

\* width and height of the containers
ContainerInputs == {<<400, 400>>, <<150, 84>>, <<149, 84>>, <<150, 83>>, <<100, 100>>}

\* coordinates of the mouse
MouseInputs == {0, 19, 20, 41, 42, 50, 59, 60, 83, 89, 90, 100, 149, 341, 400}

calculateTooltipPosition(mouseX, mouseY, containerRect) ==
    LET tooltipWidth == TOOLTIP_WIDTH
        tooltipHeight == TOOLTIP_HEIGHT
        margin == TOOLTIP_MARGIN
        rightOffset == TOOLTIP_RIGHT_OFFSET
        initialX == mouseX - tooltipWidth \div 2 + rightOffset
        initialY == mouseY - tooltipHeight - margin
        leftX == IF initialX + tooltipWidth > containerRect.width
                 THEN mouseX - tooltipWidth - margin
                 ELSE initialX
        tooltipX == IF leftX < 0 THEN mouseX + margin ELSE leftX
        tooltipY == IF initialY < 0 THEN mouseY + margin ELSE initialY
    IN [x |-> tooltipX, y |-> tooltipY]

\* one call for the mouse at (mx, my) inside the container
PlaceTooltip(mx, my, width, height) ==
    LET position == calculateTooltipPosition(mx, my, [width |-> width, height |-> height])
    IN /\ tipIn' = [mouseX |-> mx, mouseY |-> my, width |-> width, height |-> height]
       /\ tipOut' = [computed |-> TRUE, x |-> position.x, y |-> position.y]

TipInit == EarlierIdle /\ LaterIdle

\* the mouse enters a container
ShowTooltip ==
    /\ ~tipOut.computed
    /\ \E size \in ContainerInputs, mx \in MouseInputs, my \in MouseInputs :
        /\ mx <= size[1]
        /\ my <= size[2]
        /\ PlaceTooltip(mx, my, size[1], size[2])
    /\ UNCHANGED <<earlierVars, widgetVars, boundary, padVars>>

\* the mouse moves inside the container
MoveTooltip ==
    /\ tipOut.computed
    /\ \E mx \in MouseInputs, my \in MouseInputs :
        /\ mx <= tipIn.width
        /\ my <= tipIn.height
        /\ PlaceTooltip(mx, my, tipIn.width, tipIn.height)
    /\ UNCHANGED <<earlierVars, widgetVars, boundary, padVars>>

TipNext == ShowTooltip \/ MoveTooltip

TipSpec == TipInit /\ [][TipNext]_vars

(***************************************************************************)
(* Padding of validated data: the widget validates the points of the data *)
(* source and the chart normalizes processedData to at least five points. *)
(* padIn is the array validated, padOut the result of the validator and,  *)
(* once the chart has normalized it, the names of the normalized points.  *)
(***************************************************************************)
\* longest array that is validated and padded
MaxPadLen == 3

PadNameInputs ==
    {<<"A">>,
     <<"P", "o", "i", "n", "t", " ", "2">>,
     <<"p", "o", "i", "n", "t", " ", "5">>,
     <<"P", "o", "i", "n", "t", " ", "1">>}

RECURSIVE PadLists(_)
PadLists(n) ==
    IF n = 0 THEN {<<>>}
    ELSE LET shorter == PadLists(n - 1)
         IN shorter \cup {Append(l, Point(Str(name), Num(1))) :
                             l \in {s \in shorter : Len(s) = n - 1},
                             name \in PadNameInputs}

PadInputs == PadLists(MaxPadLen) \ {<<>>}

\* the names of the points the chart draws
NamesOf(points) == [i \in 1..Len(points) |-> points[i].name]

PadInit == EarlierIdle /\ LaterIdle

\* validateRadarChartData(dataPoints, 5) on the points of the data source
ValidateForChart ==
    /\ ~padOut.validated
    /\ \E raw \in PadInputs :
        /\ padIn' = raw
        /\ padOut' = [validated |-> TRUE, normalized |-> FALSE,
                      result |-> validateRadarChartData(ArrayOf(raw),
                                                        Num(CHART_DEFAULTS_MAX_VALUE), Num(0)),
                      names |-> <<>>]
    /\ UNCHANGED <<earlierVars, widgetVars, tipVars, boundary>>

\* the chart of a valid result: normalizedData of its processedData
NormalizeValidated ==
    /\ padOut.validated
    /\ ~padOut.normalized
    /\ padOut.result.isValid
    /\ padOut' = [padOut EXCEPT
                    !.normalized = TRUE,
                    !.names = NamesOf(normalizedData(
                                  ChartDataFrom(padOut.result.processedData.items)))]
    /\ UNCHANGED padIn
    /\ UNCHANGED <<earlierVars, widgetVars, tipVars, boundary>>

PadNext == ValidateForChart \/ NormalizeValidated

PadSpec == PadInit /\ [][PadNext]_vars

(***************************************************************************)
(* The error boundary: one instance of ErrorBoundary.  boundary holds its *)
(* props (fallback, onError, children), its state (hasError, error,       *)
(* errorInfo), what render() returned last, pc = "caught" between          *)
(* getDerivedStateFromError and componentDidCatch, the event of the last  *)
(* step, the number of child failures and of calls of onError.            *)
(***************************************************************************)
\* most failures of the children
MaxFailures == 3

\* the errors a child throws; the last has an empty message
ErrorInputs == {"E1", "E2", ""}

ChildrenInputs == {"chart", "chart2"}

FallbackInputs == {"none", "custom"}

\* render() for the props and the state b
BoundaryRender_AlwaysChildren(b) == "children"

BoundaryRender(b) ==
    IF b.hasError
    THEN IF b.fallback # "none" THEN "custom fallback" ELSE "default fallback"
    ELSE "children"

\* getDerivedStateFromError merged into the state
getDerivedStateFromError(b, error) == [b EXCEPT !.hasError = TRUE, !.error = error]

WithRender(b) == [b EXCEPT !.rendered = BoundaryRender(b)]

BoundaryInit == EarlierIdle /\ LaterIdle

\* the constructor and the first render
Construct ==
    /\ ~boundary.constructed
    /\ \E fb \in FallbackInputs, oe \in BOOLEAN, ch \in ChildrenInputs :
        boundary' = WithRender([NoBoundary EXCEPT !.constructed = TRUE, !.fallback = fb,
                                                  !.onError = oe, !.children = ch,
                                                  !.event = "construct"])
    /\ UNCHANGED <<earlierVars, widgetVars, tipVars, padVars>>

\* a child throws while the children render: getDerivedStateFromError, then
\* the render of the new state
ChildThrows ==
    /\ boundary.constructed
    /\ boundary.pc = "idle"
    /\ boundary.rendered = "children"
    /\ boundary.failures < MaxFailures
    /\ \E error \in ErrorInputs :
        boundary' = WithRender([getDerivedStateFromError(boundary, error) EXCEPT
                                    !.pc = "caught", !.event = "childError",
                                    !.failures = boundary.failures + 1])
    /\ UNCHANGED <<earlierVars, widgetVars, tipVars, padVars>>

\* componentDidCatch for the error caught, then the render of the new state
componentDidCatch ==
    /\ boundary.pc = "caught"
    /\ boundary' = WithRender([boundary EXCEPT
                                  !.errorInfo = "componentStack",
                                  !.reported = IF boundary.onError THEN @ + 1 ELSE @,
                                  !.pc = "idle", !.event = "didCatch"])
    /\ UNCHANGED <<earlierVars, widgetVars, tipVars, padVars>>

\* a click on "Try Again" of the default fallback: handleRetry, then the render
BoundaryRetry ==
    /\ boundary.pc = "idle"
    /\ boundary.rendered = "default fallback"
    /\ boundary' = WithRender([boundary EXCEPT
                                  !.hasError = FALSE, !.error = "undefined",
                                  !.errorInfo = "undefined", !.event = "retry"])
    /\ UNCHANGED <<earlierVars, widgetVars, tipVars, padVars>>

\* the parent renders the boundary with other children
NewChildren ==
    /\ boundary.constructed
    /\ boundary.pc = "idle"
    /\ \E ch \in ChildrenInputs \ {boundary.children} :
        boundary' = WithRender([boundary EXCEPT !.children = ch, !.event = "props"])
    /\ UNCHANGED <<earlierVars, widgetVars, tipVars, padVars>>

BoundaryNext ==
    \/ Construct
    \/ ChildThrows
    \/ componentDidCatch
    \/ BoundaryRetry
    \/ NewChildren

BoundarySpec == BoundaryInit /\ [][BoundaryNext]_vars

(***************************************************************************)
(* Vocabulary of the properties.                                           *)
(***************************************************************************)
HasDiag(list, d) == \E k \in 1..Len(list) : list[k] = d

CountDiag(list, d) == Cardinality({k \in 1..Len(list) : list[k] = d})

HasIndex(list, i) == \E k \in 1..Len(list) : list[k].index = i

\* the call has entered the loop over an array
InLoop == pc \in {"loop", "done"} /\ dataPoints.kind = "array"

\* the call has returned
Returned == pc = "done"

\* the element with zero-based index i
ElementAt(i) == dataPoints.items[i + 1]

\* an element has just been visited: Current, at zero-based CurrentIndex
JustVisited == InLoop /\ index >= 1

Current == dataPoints.items[index]

CurrentIndex == index - 1

CurrentIsObject == JustVisited /\ Current.kind = "object"

\* the point pushed last
LastProcessed == processedData[Len(processedData)]

\* lo <= v <= hi on numbers that are not NaN
Within(v, lo, hi) == ~IsNaN(v) /\ ~NumLt(v, lo) /\ ~NumGt(v, hi)

\* minValue <= maxValue
RangeInOrder == ~NumGt(minValue, maxValue)

FiniteNumber(v) == v.t = "number" /\ v.k = "fin"

\* the low surrogate of the lower case of the pair h, l
PairLower(h, l) == IF IsUpperPair(h, l) THEN LowerSurrogate(h, l) ELSE l

\* two names equal up to the case of their letters: letter by letter the same
\* letter of Unicode, capital or small, whatever stands around it
EqualIgnoringCase(a, b) ==
    /\ Len(a) = Len(b)
    /\ \A i \in 1..Len(a) :
          \/ LowerChar(a[i]) = LowerChar(b[i])
          \/ /\ i > 1
             /\ a[i - 1] = b[i - 1]
             /\ PairLower(a[i - 1], a[i]) = PairLower(b[i - 1], b[i])

ValueError(i) == Diag("INVALID_DATA_TYPE", "value", i)

NameError(i) == Diag("INVALID_DATA_TYPE", "name", i)

Clamped(i) == Diag("DATA_CLAMPED", "value", i)

(***************************************************************************)
(* C1: the returned result has processedData defined if and only if        *)
(* isValid is true, whatever the input.                                    *)
(***************************************************************************)
C1_ProcessedDataIffValid ==
    Returned => (result.processedData.defined <=> result.isValid)

\* points were processed, an error was found, and the data is withheld
C1_Witness ==
    /\ Returned
    /\ Len(processedData) > 0
    /\ ~result.isValid
    /\ ~result.processedData.defined

(***************************************************************************)
(* C2 as stated: a valid result has at least one element and every value   *)
(* lies in [0, maxValue].                                                  *)
(***************************************************************************)
C2_Original ==
    (Returned /\ result.isValid) =>
        /\ Len(result.processedData.items) >= 1
        /\ \A k \in 1..Len(result.processedData.items) :
              Within(result.processedData.items[k].value, Num(0), maxValue)

(***************************************************************************)
(* C2 amended: a valid result has at least one element and every value     *)
(* lies between minValue and maxValue, in whichever order the two are      *)
(* given; it lies in [0, maxValue] when minValue = 0 <= maxValue.          *)
(***************************************************************************)
C2_ValuesBetweenBounds ==
    (Returned /\ result.isValid) =>
        /\ Len(result.processedData.items) >= 1
        /\ \A k \in 1..Len(result.processedData.items) :
              LET v == result.processedData.items[k].value
              IN /\ Within(v, minValue, maxValue) \/ Within(v, maxValue, minValue)
                 /\ (minValue = Num(0) /\ RangeInOrder) => Within(v, Num(0), maxValue)

\* a valid result one of whose values was clamped
C2_Witness ==
    /\ Returned
    /\ result.isValid
    /\ \E i \in 0..(index - 1) : HasDiag(result.warnings, Clamped(i))

(***************************************************************************)
(* C3 as stated: a value that is null, undefined, not of number type, NaN, *)
(* +Infinity or -Infinity gets an INVALID_DATA_TYPE error for field value  *)
(* at its index, the processed value 0 and no DATA_CLAMPED warning.        *)
(***************************************************************************)
ValueRejected ==
    /\ HasDiag(errors, ValueError(CurrentIndex))
    /\ Len(processedData) > 0
    /\ LastProcessed.value = Num(0)
    /\ ~HasDiag(warnings, Clamped(CurrentIndex))

NotANumber(v) == v.t # "number" \/ v.k = "nan"

Infinite(v) == v.t = "number" /\ v.k \in {"pinf", "ninf"}

C3_Original ==
    (CurrentIsObject /\ (NotANumber(Current.value) \/ Infinite(Current.value)))
        => ValueRejected

(***************************************************************************)
(* C3 amended: a value that is null, undefined, not of number type or NaN  *)
(* gets an INVALID_DATA_TYPE error for field value at its index, the       *)
(* processed value 0 and no DATA_CLAMPED warning; +Infinity and -Infinity  *)
(* are numbers to the validator and get no INVALID_DATA_TYPE error.        *)
(***************************************************************************)
C3_NonNumbersRejected ==
    /\ (CurrentIsObject /\ NotANumber(Current.value)) => ValueRejected
    /\ (CurrentIsObject /\ Infinite(Current.value))
          => ~HasDiag(errors, ValueError(CurrentIndex))

\* a NaN value was just rejected
C3_Witness ==
    /\ CurrentIsObject
    /\ Current.value = NaN
    /\ ValueRejected

(***************************************************************************)
(* C4 as stated: a string name that is empty after trimming gets an        *)
(* EMPTY_NAME warning at its index, no INVALID_DATA_TYPE error, and the    *)
(* processed name "Category {index+1}"; only a name that is not a string   *)
(* yields INVALID_DATA_TYPE.                                               *)
(***************************************************************************)
C4_Original ==
    CurrentIsObject =>
        /\ (Current.name.t = "string" /\ trim(Current.name.s) = <<>>) =>
              /\ HasDiag(warnings, Diag("EMPTY_NAME", "name", CurrentIndex))
              /\ ~HasDiag(errors, NameError(CurrentIndex))
              /\ Len(processedData) > 0
              /\ LastProcessed.name = CategoryName(CurrentIndex)
        /\ HasDiag(errors, NameError(CurrentIndex)) => Current.name.t # "string"

(***************************************************************************)
(* C5 as stated: index j gets a DUPLICATE_NAMES error exactly when its     *)
(* processed name (given or substituted default) equals, ignoring letter   *)
(* case, the processed name of an element at an earlier index.             *)
(***************************************************************************)
\* the name the validator gives element i
ProcessedNameOf(i) == validateDataPointName(ElementAt(i).name, i, {}).processedName

C5_Original ==
    InLoop =>
        \A j \in 0..(index - 1) :
            ElementAt(j).kind = "object" =>
                (HasDiag(errors, Diag("DUPLICATE_NAMES", "name", j))
                 <=> \E i \in 0..(j - 1) :
                        /\ ElementAt(i).kind = "object"
                        /\ EqualIgnoringCase(ProcessedNameOf(i), ProcessedNameOf(j)))

(***************************************************************************)
(* C6: whenever processedData is returned, no two of its elements have     *)
(* names that are equal ignoring letter case.                              *)
(***************************************************************************)
C6_Original ==
    (Returned /\ result.processedData.defined) =>
        \A a, b \in 1..Len(result.processedData.items) :
            a # b => ~EqualIgnoringCase(result.processedData.items[a].name,
                                        result.processedData.items[b].name)

(***************************************************************************)
(* C7 as stated: for a finite numeric value v the processed value is v     *)
(* limited to [minValue, maxValue]; exactly one DATA_CLAMPED warning with  *)
(* the element's index is emitted when the processed value differs from v  *)
(* and none when it equals v; clamping adds no error, so an input whose    *)
(* only defects are out-of-range values is valid.                          *)
(***************************************************************************)
\* r is v limited to [lo, hi]
LimitedTo(r, v, lo, hi) ==
    /\ Within(r, lo, hi)
    /\ Within(v, lo, hi) => r = v
    /\ NumLt(v, lo) => r = lo
    /\ NumGt(v, hi) => r = hi

\* the clamp of the current element is reported by one warning, or by none
ClampReported ==
    /\ CountDiag(warnings, Clamped(CurrentIndex))
          = (IF LastProcessed.value # Current.value THEN 1 ELSE 0)
    /\ ~HasDiag(errors, ValueError(CurrentIndex))

\* a name that is a string, not empty after trimming, short and plain
SoundName(name) ==
    /\ name.t = "string"
    /\ trim(name.s) # <<>>
    /\ Len(trim(name.s)) <= MAX_NAME_LENGTH
    /\ ~HasSpecialChar(trim(name.s))

\* a non-empty array of objects with sound, distinct names and finite values
OnlyRangeDefects ==
    /\ dataPoints.kind = "array"
    /\ Len(dataPoints.items) > 0
    /\ \A i \in 1..Len(dataPoints.items) :
          /\ dataPoints.items[i].kind = "object"
          /\ SoundName(dataPoints.items[i].name)
          /\ FiniteNumber(dataPoints.items[i].value)
    /\ \A i, j \in 1..Len(dataPoints.items) :
          i # j => ~EqualIgnoringCase(trim(dataPoints.items[i].name.s),
                                      trim(dataPoints.items[j].name.s))

C7_Original ==
    /\ (CurrentIsObject /\ FiniteNumber(Current.value)) =>
          /\ Len(processedData) > 0
          /\ LimitedTo(LastProcessed.value, Current.value, minValue, maxValue)
          /\ ClampReported
    /\ (Returned /\ OnlyRangeDefects) => result.isValid

(***************************************************************************)
(* C7 amended: as stated, the processed value being v limited to           *)
(* [minValue, maxValue] whenever minValue <= maxValue.                     *)
(***************************************************************************)
C7_ClampedWithOneWarning ==
    /\ (CurrentIsObject /\ FiniteNumber(Current.value)) =>
          /\ Len(processedData) > 0
          /\ RangeInOrder =>
                LimitedTo(LastProcessed.value, Current.value, minValue, maxValue)
          /\ ClampReported
    /\ (Returned /\ OnlyRangeDefects) => result.isValid

\* a valid result whose last value was clamped, under bounds in order
C7_Witness ==
    /\ Returned
    /\ OnlyRangeDefects
    /\ RangeInOrder
    /\ result.isValid
    /\ LastProcessed.value # Current.value
    /\ HasDiag(result.warnings, Clamped(CurrentIndex))

(***************************************************************************)
(* C8 as stated: clamping is idempotent; for every numeric value and the   *)
(* same minValue and maxValue, validating the already clamped value        *)
(* returns it unchanged and emits no further DATA_CLAMPED warning.         *)
(***************************************************************************)
C8_Original ==
    clampPc \in {"twice", "geometry"} =>
        /\ clampTwice.processedValue = clampOnce.processedValue
        /\ clampTwice.warnings = <<>>

(***************************************************************************)
(* C8 amended: whenever minValue <= maxValue, validating the already       *)
(* clamped value returns it unchanged and emits no further DATA_CLAMPED    *)
(* warning; and the geometry's clamp to [0, maxValue] leaves a validated   *)
(* value unchanged when minValue = 0 <= maxValue.                          *)
(***************************************************************************)
C8_IdempotentInOrder ==
    /\ (clampPc \in {"twice", "geometry"} /\ RangeInOrder) =>
          /\ clampTwice.processedValue = clampOnce.processedValue
          /\ clampTwice.warnings = <<>>
          /\ clampTwice.errors = <<>>
    /\ (clampPc = "geometry" /\ minValue = Num(0) /\ RangeInOrder) =>
          clampGeo = clampOnce.processedValue

\* a value that the first pass clamped went through the second unchanged
C8_Witness ==
    /\ clampPc = "geometry"
    /\ RangeInOrder
    /\ clampOnce.processedValue # clampIn
    /\ clampOnce.warnings # <<>>
    /\ clampTwice.processedValue = clampOnce.processedValue

(***************************************************************************)
(* C9: validation never aborts on a defective element: every element of    *)
(* the array is visited, and every defective element visited (not an       *)
(* object, bad name, or bad value) has an error or a warning carrying its  *)
(* index, however many elements before it failed.                          *)
(***************************************************************************)
Defective(point) ==
    \/ point.kind # "object"
    \/ ~SoundName(point.name)
    \/ ~FiniteNumber(point.value)
    \/ NumLt(point.value, minValue)
    \/ NumGt(point.value, maxValue)

C9_EveryDefectReported ==
    /\ InLoop =>
          \A i \in 0..(index - 1) :
              Defective(ElementAt(i)) => (HasIndex(errors, i) \/ HasIndex(warnings, i))
    /\ (Returned /\ dataPoints.kind = "array") => index = Len(dataPoints.items)

\* two defective elements, the first not an object, both reported
C9_Witness ==
    /\ Returned
    /\ dataPoints.kind = "array"
    /\ Len(dataPoints.items) = 2
    /\ ElementAt(0).kind # "object"
    /\ Defective(ElementAt(1))
    /\ HasIndex(result.errors, 0)
    /\ HasIndex(result.errors, 1) \/ HasIndex(result.warnings, 1)

(***************************************************************************)
(* C10: validation preserves element order: a valid result has as many     *)
(* points as the input, and point i carries the trimmed name (or its       *)
(* substituted default) and the clamped value of input element i.          *)
(***************************************************************************)
\* the trimmed name of element i, or the default when nothing is left
ExpectedName(i) ==
    IF trim(ElementAt(i).name.s) = <<>> THEN CategoryName(i) ELSE trim(ElementAt(i).name.s)

\* the value of element i after clamping
ExpectedValue(i) ==
    LET v == ElementAt(i).value
    IN IF NumLt(v, minValue) THEN minValue ELSE IF NumGt(v, maxValue) THEN maxValue ELSE v

C10_OrderPreserved ==
    (Returned /\ result.isValid) =>
        /\ Len(result.processedData.items) = Len(dataPoints.items)
        /\ \A i \in 0..(Len(dataPoints.items) - 1) :
              /\ result.processedData.items[i + 1].name = ExpectedName(i)
              /\ result.processedData.items[i + 1].value = ExpectedValue(i)

\* a valid result of two different points, the second named by default
C10_Witness ==
    /\ Returned
    /\ result.isValid
    /\ Len(dataPoints.items) = 2
    /\ result.processedData.items[1] # result.processedData.items[2]
    /\ result.processedData.items[2].name = CategoryName(1)
    /\ result.processedData.items[2].value # ElementAt(1).value

(***************************************************************************)
(* C11: when rawPoints is null, undefined or not an array, validation      *)
(* returns exactly isValid = false, errors = one MISSING_DATA error,       *)
(* warnings = empty, processedData undefined, and processes no element.    *)
(***************************************************************************)
C11_MissingData ==
    (Returned /\ dataPoints.kind # "array") =>
        /\ result = [isValid |-> FALSE,
                     errors |-> <<Diag("MISSING_DATA", "-", -1)>>,
                     warnings |-> <<>>,
                     processedData |-> UndefinedData]
        /\ index = 0
        /\ processedData = <<>>
        /\ seenNames = {}

\* a value that is an object but no array was rejected
C11_Witness ==
    /\ Returned
    /\ dataPoints = NonArray("object")
    /\ result.errors = <<Diag("MISSING_DATA", "-", -1)>>

(***************************************************************************)
(* C12: for an array from which no point ends up processed (the empty      *)
(* array, or an array whose every element is not an object), errors        *)
(* contains an EMPTY_VALUES error and isValid is false.                    *)
(***************************************************************************)
NoObjectElement ==
    \A i \in 1..Len(dataPoints.items) : dataPoints.items[i].kind # "object"

C12_EmptyValues ==
    (Returned /\ dataPoints.kind = "array" /\ (NoObjectElement \/ processedData = <<>>)) =>
        /\ HasDiag(result.errors, Diag("EMPTY_VALUES", "-", -1))
        /\ ~result.isValid

\* two elements, neither an object: the loop ran and nothing was processed
C12_Witness ==
    /\ Returned
    /\ dataPoints.kind = "array"
    /\ Len(dataPoints.items) = 2
    /\ NoObjectElement
    /\ index = 2
    /\ HasDiag(result.errors, Diag("EMPTY_VALUES", "-", -1))

(***************************************************************************)
(* The chart geometry.                                                     *)
(***************************************************************************)
\* the chart on the screen was rendered from a result the validator called valid
ValidatedChart == mounted /\ validation.isValid

\* C13: a maxValue that is zero or negative is rejected before geometry runs: no
\* valid result reaches the computation that divides by maxValue.
C13_Original == ValidatedChart => GLt(GInt(0), props.maxValue)

\* C14: normalization of a list of n points returns max(n, 5) points: the n
\* points of the input unchanged and in order, then "Point k" with value 0 for
\* k = n + 1 .. 5.
C14_Normalized ==
    mounted =>
        LET n == Len(props.data)
            normalized == calc.normalizedData
        IN /\ Len(normalized) = (IF n > 5 THEN n ELSE 5)
           /\ \A i \in 1..n : normalized[i] = props.data[i]
           /\ \A k \in (n + 1)..5 :
                  normalized[k] = [name |-> <<"P", "o", "i", "n", "t", " ", DigitChars[k + 1]>>,
                                   value |-> GInt(0)]

\* three points were padded with "Point 4" and "Point 5"
C14_Witness ==
    /\ mounted
    /\ Len(props.data) = 3
    /\ Len(calc.normalizedData) = 5
    /\ calc.normalizedData[3] = props.data[3]
    /\ calc.normalizedData[4].name = <<"P", "o", "i", "n", "t", " ", "4">>

\* a <= b on finite numbers
GLe(a, b) == a.k = "fin" /\ b.k = "fin" /\ ~GLt(b, a)

\* what the rounding of a few operations may lose
Tolerance == G(1000)

\* a and b differ by no more than the tolerance
Near(a, b) == GLe(GSub(a, b), Tolerance) /\ GLe(GSub(b, a), Tolerance)

\* the dimensions of a chart of the given width and height and of n points or
\* hinted spokes, angleStep within the rounding of the division
DimensionsFor(dim, width, height, n) ==
    /\ dim.centerX.k = "fin" /\ GMul(GInt(2), dim.centerX) = width
    /\ dim.centerY.k = "fin" /\ GMul(GInt(2), dim.centerY) = height
    /\ dim.radius.k = "fin"
    /\ GMul(GInt(2), GAdd(dim.radius, GInt(60)))
           = (IF GLt(width, height) THEN width ELSE height)
    /\ dim.spokeCount = (IF n > 5 THEN n ELSE 5)
    /\ dim.spokeCount >= 5
    /\ dim.angleStep.k = "fin"
    /\ Near(GMul(dim.angleStep, GInt(dim.spokeCount)), GMul(GInt(2), MathPI))

\* C15: the dimensions are centerX = width / 2, centerY = height / 2, radius =
\* min(width, height) / 2 - 60, spokeCount = max(5, n) >= 5 and angleStep =
\* 2 * pi / spokeCount, n the hint of useChartDimensions or the data length of
\* useChartCalculations, n = 0 included; both return the same dimensions.
C15_Dimensions ==
    /\ dimHinted.called =>
           DimensionsFor(dimHinted.dimensions, dimIn.width, dimIn.height, dimIn.count)
    /\ dimCalculated.called =>
           DimensionsFor(dimCalculated.dimensions, dimIn.width, dimIn.height, dimIn.count)
    /\ (dimHinted.called /\ dimCalculated.called) =>
           dimHinted.dimensions = dimCalculated.dimensions

\* both were called with no point at all and gave five spokes
C15_Witness ==
    /\ dimIn.count = 0
    /\ dimHinted.called
    /\ dimCalculated.called
    /\ dimHinted.dimensions.spokeCount = 5
    /\ dimCalculated.dimensions.spokeCount = 5

\* the point at the offset radius * (cos, sin) from the center of a static point
OffsetPoint(static, radius) ==
    [x |-> GAdd(static.centerX, GMul(radius, static.cos)),
     y |-> GAdd(static.centerY, GMul(radius, static.sin))]

\* C16: at progress 0 every data point is exactly the center of the chart; at
\* progress 1 data point i is at center + maxRadius_i * (cos_i, sin_i); at any
\* progress its offset from the center is maxRadius_i * progress * (cos_i, sin_i).
C16_Original ==
    mounted =>
        \A i \in 1..Len(calc.dataPoints) :
            LET static == calc.staticDataPoints[i]
                point == calc.dataPoints[i]
            IN /\ props.animationProgress = GInt(0) =>
                      point = [x |-> calc.dimensions.centerX, y |-> calc.dimensions.centerY]
               /\ props.animationProgress = GInt(1) =>
                      point = OffsetPoint(static, static.maxRadius)
               /\ point = OffsetPoint(static, GMul(static.maxRadius, props.animationProgress))

\* a step of the mounted chart in which only animationProgress differs
AnimationTick ==
    /\ mounted
    /\ mounted'
    /\ props'.animationProgress # props.animationProgress
    /\ props' = [props EXCEPT !.animationProgress = props'.animationProgress]

\* C17: over animation ticks, with width, height, data and maxValue as they were,
\* the static points (angle, cos, sin, maxRadius, centerX, centerY) are not computed
\* again and do not change; a tick changes only the animated points and the path.
C17_StaticAcrossTicks ==
    [][AnimationTick =>
        /\ calc'.staticDataPoints = calc.staticDataPoints
        /\ recomputed' \subseteq {"dataPoints", "radarPath"}
        /\ calc' = [calc EXCEPT !.dataPoints = calc'.dataPoints,
                                !.radarPath = calc'.radarPath]]_vars

\* the last render was a tick to the end of the animation: it computed the
\* animated points and the path of six static points and nothing else
C17_Witness ==
    /\ mounted
    /\ recomputed = {"dataPoints", "radarPath"}
    /\ props.animationProgress = GInt(1)
    /\ Len(calc.staticDataPoints) = 6
    /\ calc.dataPoints[1] = OffsetPoint(calc.staticDataPoints[1],
                                        calc.staticDataPoints[1].maxRadius)

(***************************************************************************)
(* The path as the words between its spaces:                               *)
(*   M x y  C x1 y1, x2 y2, x y  ...  Z                                    *)
(***************************************************************************)
\* the length of chars up to the first sep
RECURSIVE LengthTo(_, _)
LengthTo(chars, sep) ==
    IF chars = <<>> \/ Head(chars) = sep THEN 0 ELSE 1 + LengthTo(Tail(chars), sep)

\* the non-empty pieces of chars between the characters sep
RECURSIVE Split(_, _)
Split(chars, sep) ==
    IF chars = <<>> THEN <<>>
    ELSE IF Head(chars) = sep THEN Split(Tail(chars), sep)
    ELSE <<SubSeq(chars, 1, LengthTo(chars, sep))>>
             \o Split(SubSeq(chars, LengthTo(chars, sep) + 1, Len(chars)), sep)

Words(chars) == Split(chars, " ")

\* the indexes of the words that are the command c
CommandsAt(words, c) == {w \in 1..Len(words) : words[w] = <<c>>}

\* C18: the path of no point is the empty string; the path of n >= 1 points is a
\* move to points[0], then exactly n cubic segments in the order of the points,
\* segment i ending at points[(i + 1) mod n], then the close marker Z.
C18_ClosedPath ==
    pathOut.built =>
        LET n == Len(pathIn)
            words == Words(pathOut.path)
        IN IF n = 0 THEN pathOut.path = <<>>
           ELSE /\ Len(words) = 3 + 7 * n + 1
                /\ words[1] = <<"M">>
                /\ words[2] = toFixed2(pathIn[1].x)
                /\ words[3] = toFixed2(pathIn[1].y)
                /\ CommandsAt(words, "C") = {3 + 7 * i + 1 : i \in 0..(n - 1)}
                /\ \A i \in 0..(n - 1) :
                       /\ words[3 + 7 * i + 6] = toFixed2(pathIn[((i + 1) % n) + 1].x)
                       /\ words[3 + 7 * i + 7] = toFixed2(pathIn[((i + 1) % n) + 1].y)
                /\ CommandsAt(words, "Z") = {Len(words)}
                /\ CommandsAt(words, "M") = {1}

\* three different points: the third segment returns to the first point
C18_Witness ==
    /\ pathOut.built
    /\ Len(pathIn) = 3
    /\ pathIn[1] = PathPoint(GInt(200), GInt(60))
    /\ pathIn[2] # pathIn[1]
    /\ pathIn[3] # pathIn[1]
    /\ SubSeq(pathOut.path, Len(pathOut.path) - 13, Len(pathOut.path))
           = <<"2", "0", "0", ".", "0", "0", " ", "6", "0", ".", "0", "0", " ", "Z">>

\* vertex spoke (from 0) of the polygon of a level, as the text "x,y" of the point
\* at the distance radius * level / 5 from the center in the direction
\* spoke * angleStep - pi / 2
VertexAt(dim, level, spoke) ==
    LET distance == GDiv(GMul(dim.radius, GInt(level)), GInt(5))
        direction == GSub(GMul(GInt(spoke), dim.angleStep), GDiv(MathPI, GInt(2)))
    IN <<toFixed2(GAdd(dim.centerX, GMul(distance, MathCos(direction)))),
         toFixed2(GAdd(dim.centerY, GMul(distance, MathSin(direction))))>>

AloneResult(c) ==
    validateRadarChartData(ArrayOf(calls.given[calls.runs[c].array]),
                           calls.runs[c].maxValue, calls.runs[c].minValue)

\* C20: validations interleaved in any order each return exactly the result they
\* return alone: the seen names and the error, warning and processed lists of a
\* call are not visible to another, and the input array is not modified.
C20_CallsIsolated ==
    /\ \A c \in DOMAIN calls.runs :
           calls.runs[c].pc = "done" => calls.runs[c].result = AloneResult(c)
    /\ calls.arrays = calls.given

\* two calls on the same array: the second returned, with its error for the
\* name seen twice, while the first had seen one name and was still in its loop
C20_Witness ==
    /\ Len(calls.runs) >= 2
    /\ calls.runs[1].array = calls.runs[2].array
    /\ calls.runs[1].pc = "loop"
    /\ calls.runs[1].index = 1
    /\ calls.runs[1].seenNames # {}
    /\ calls.runs[2].pc = "done"
    /\ HasDiag(calls.runs[2].result.errors, Diag("DUPLICATE_NAMES", "name", 1))


(***************************************************************************)
(* The widget and its data hook.                                          *)
(***************************************************************************)
\* the widget has rendered the result of the hook
WidgetRendered == view # "unmounted"

\* C21: the chart is rendered only when the validation result has no errors, its
\* processedData is not empty and the data source is not loading; a result with
\* errors always shows the error state; a result with warnings and no errors
\* renders the chart.
C21_RenderGate ==
    WidgetRendered =>
        /\ view = "chart" =>
               /\ Len(memo.result.errors) = 0
               /\ memo.result.processedData.defined
               /\ Len(memo.result.processedData.items) > 0
               /\ ~isDataSourceLoading(dataSource)
        /\ Len(memo.result.errors) > 0 => view = "error"
        /\ (Len(memo.result.warnings) > 0 /\ Len(memo.result.errors) = 0) =>
               view = "chart"

\* the item B of value 9 was clamped to the default maximum 5 with a warning,
\* and the chart is shown with the clamped value
C21_Witness ==
    /\ view = "chart"
    /\ Len(memo.result.warnings) > 0
    /\ Len(memo.result.errors) = 0
    /\ memo.result.processedData.items = <<[name |-> <<"B">>, value |-> GInt(5)]>>

\* C22: every result of useRadarChartData has processedData available only when
\* isValid is true.
C22_Original ==
    WidgetRendered => (memo.result.processedData.defined => memo.result.isValid)

\* C23: when the data source is available and has no records, the widget shows
\* the empty state, not the error state.
C23_Original ==
    (/\ WidgetRendered
     /\ isDataSourceAvailable(dataSource)
     /\ Len(dataSource.items.items) = 0) => view = "empty"

\* C24: the render that "Try Again" causes runs the processing and validation
\* of useRadarChartData again.
C24_Original == lastRender.event = "retry" => lastRender.validated

\* the data source is configured, neither loading nor unavailable, and not
\* available
DataSourceNotReady ==
    /\ dataSource.present
    /\ ~isDataSourceLoading(dataSource)
    /\ ~hasDataSourceError(dataSource)
    /\ ~(dataSource.status = "available" /\ dataSource.items.defined)

\* C29: for a data source that is configured, neither loading nor unavailable,
\* and not available, the hook returns a valid result without errors or
\* warnings whose processedData are the 8 demo points, and the widget renders
\* the chart.
C29_DefaultData ==
    (WidgetRendered /\ DataSourceNotReady) =>
        /\ memo.result.isValid
        /\ memo.result.errors = <<>>
        /\ memo.result.warnings = <<>>
        /\ memo.result.processedData.defined
        /\ memo.result.processedData.items = getDefaultRadarChartData
        /\ Len(memo.result.processedData.items) = 8
        /\ view = "chart"

\* status "available" with no items: the chart of the demo points, from
\* "Roles and Skills" 4.2 to "Partners" 4.0
C29_Witness ==
    /\ dataSource.present
    /\ dataSource.status = "available"
    /\ ~dataSource.items.defined
    /\ view = "chart"
    /\ Len(memo.result.processedData.items) = 8
    /\ memo.result.processedData.items[1].value = G(4200000)
    /\ memo.result.processedData.items[8] =
           [name |-> <<"P", "a", "r", "t", "n", "e", "r", "s">>, value |-> GInt(4)]


(***************************************************************************)
(* Memoization and the place of the data points.                          *)
(***************************************************************************)
\* what the hook computes for the current properties with no memo to serve
FromScratch == RenderHook(FALSE, NoProps, NoCalc, props, TRUE).calc

\* C25: after any sequence of changes of width, height, data, maxValue and
\* animationProgress, normalizedData, dimensions, gridPolygons, dataPoints,
\* radarPath and spokes each equal what a computation from scratch gives for
\* the current inputs.
C25_NoStaleMemo ==
    mounted =>
        /\ calc.normalizedData = FromScratch.normalizedData
        /\ calc.dimensions = FromScratch.dimensions
        /\ calc.gridPolygons = FromScratch.gridPolygons
        /\ calc.dataPoints = FromScratch.dataPoints
        /\ calc.radarPath = FromScratch.radarPath
        /\ calc.spokes = FromScratch.spokes

\* the data was replaced by three points, padded to five as before: the last
\* render computed the points and the path anew and served dimensions, grid
\* and spokes from the memo
C25_Witness ==
    /\ mounted
    /\ recomputed = {"normalizedData", "staticDataPoints", "dataPoints", "radarPath"}
    /\ Len(props.data) = 3
    /\ calc.dimensions.spokeCount = 5
    /\ Len(calc.gridPolygons) = GRID_LEVELS

\* point (x, y) lies on the ray from the center of dim in the direction angle,
\* no farther than the radius
OnSpoke(x, y, dim, angle) ==
    LET dx == GSub(x, dim.centerX)
        dy == GSub(y, dim.centerY)
        across == GSub(GMul(dx, MathSin(angle)), GMul(dy, MathCos(angle)))
        along == GAdd(GMul(dx, MathCos(angle)), GMul(dy, MathSin(angle)))
    IN /\ GLe(GNeg(Tolerance), across) /\ GLe(across, Tolerance)
       /\ GLe(GNeg(Tolerance), along)
       /\ GLe(along, GAdd(dim.radius, Tolerance))

\* the case of C27: a positive maxValue, a radius that is not negative and a
\* progress from 0 to 1
PointsDefined ==
    /\ mounted
    /\ GLt(GInt(0), props.maxValue)
    /\ GLe(GInt(0), calc.dimensions.radius)
    /\ GLe(GInt(0), props.animationProgress)
    /\ GLe(props.animationProgress, GInt(1))

\* C27: for a positive maxValue, a radius >= 0 and a progress in [0, 1], data
\* point i lies on the segment from the center to the end of spoke i: in the
\* direction i * angleStep - PI / 2 of the spoke and no farther than the radius.
C27_OnSpoke ==
    PointsDefined =>
        /\ Len(calc.dataPoints) = Len(calc.spokes)
        /\ \A i \in 1..Len(calc.dataPoints) :
            LET angle == SpokeAngle(i - 1, calc.dimensions.angleStep)
            IN /\ OnSpoke(calc.dataPoints[i].x, calc.dataPoints[i].y,
                          calc.dimensions, angle)
               /\ calc.spokes[i].x1 = calc.dimensions.centerX
               /\ calc.spokes[i].y1 = calc.dimensions.centerY
               /\ calc.spokes[i].x2 =
                      GAdd(calc.dimensions.centerX,
                           GMul(calc.dimensions.radius, MathCos(angle)))
               /\ calc.spokes[i].y2 =
                      GAdd(calc.dimensions.centerY,
                           GMul(calc.dimensions.radius, MathSin(angle)))

\* validated data half way through the animation: the first point is straight
\* above the center, nearer than the end of its spoke
C27_Witness ==
    /\ ValidatedChart
    /\ PointsDefined
    /\ props.animationProgress = G(500000)
    /\ Len(calc.dataPoints) = 5
    /\ calc.dataPoints[1].x = calc.dimensions.centerX
    /\ GLt(calc.spokes[1].y2, calc.dataPoints[1].y)
    /\ GLt(calc.dataPoints[1].y, calc.dimensions.centerY)


(***************************************************************************)
(* The tooltip inside its container.                                      *)
(***************************************************************************)
\* C26: for every mouse position inside the container the tooltip lies inside
\* it: x >= 0, y >= 0, x + 80 <= width and y + 32 <= height.
C26_Original ==
    tipOut.computed =>
        /\ tipOut.x >= 0
        /\ tipOut.y >= 0
        /\ tipOut.x + TOOLTIP_WIDTH <= tipIn.width
        /\ tipOut.y + TOOLTIP_HEIGHT <= tipIn.height


(***************************************************************************)
(* The names after padding.                                               *)
(***************************************************************************)
\* C28: when validated processedData of fewer than 5 points is normalized, the
\* names of the resulting points, the original ones and the "Point k" of the
\* padding, are pairwise distinct ignoring case.
C28_Original ==
    (padOut.normalized /\ Len(padIn) < MINIMUM_SPOKES) =>
        \A i, j \in 1..Len(padOut.names) :
            i # j => toLowerCase(padOut.names[i]) # toLowerCase(padOut.names[j])


(***************************************************************************)
(* The error boundary.                                                    *)
(***************************************************************************)
\* render() returned the children exactly when hasError is false, and
\* hasError is false after the constructor
ChildrenIffNoError ==
    boundary.constructed =>
        /\ boundary.rendered = "children" <=> ~boundary.hasError
        /\ boundary.event = "construct" => ~boundary.hasError

\* a failure of a child sets hasError, only "Try Again" takes it back, with
\* error and errorInfo, and every other step keeps it
ErrorUntilRetry ==
    /\ boundary'.event = "childError" /\ boundary'.failures = boundary.failures + 1
           => boundary'.hasError /\ boundary'.rendered # "children"
    /\ (boundary.hasError /\ ~boundary'.hasError) =>
           /\ boundary'.event = "retry"
           /\ boundary'.error = "undefined"
           /\ boundary'.errorInfo = "undefined"
           /\ boundary'.rendered = "children"
    /\ (boundary.hasError /\ boundary'.event # "retry") =>
           boundary'.hasError /\ boundary'.rendered = boundary.rendered

\* C30: the boundary renders its children exactly when hasError is false:
\* hasError starts false, a render error of a child sets it and the fallback
\* is shown from then on, only "Try Again" resets hasError, error and
\* errorInfo so that the children render again, and a child that fails again
\* brings the fallback back.
C30_ChildrenIffNoError == []ChildrenIffNoError /\ [][ErrorUntilRetry]_vars

\* the children failed, "Try Again" rendered them again, and they failed a
\* second time: the default fallback is back with the second error
C30_Witness ==
    /\ boundary.failures = 2
    /\ boundary.hasError
    /\ boundary.error = "E2"
    /\ boundary.errorInfo = "componentStack"
    /\ boundary.rendered = "default fallback"
    /\ boundary.event = "didCatch"

====
